---- MODULE Spec2Model ----
(***************************************************************************)
(* A model of the PATS API example clients:                                *)
(*   pats_service.py  - class PatsService, bearer-token scheme (current)   *)
(*   patsService.py   - class PatsService, bearer-token scheme (older)     *)
(*   example.py       - module-level functions on a requests.Session,      *)
(*                      cookie scheme                                      *)
(* Every client operation is one action: it builds its request, sends it,  *)
(* receives a response chosen by the environment, and classifies it.       *)
(* The plot functions of plot_examples.py and example.py consume the       *)
(* counts a client returned (action ShowCounts).  DateSpec follows a date  *)
(* from the caller through a request to the parse of its text.            *)
(* FlowSpec runs the scripts of main.py and example.py call by call, each  *)
(* call split into the sending of its request and the arrival of the       *)
(* response, and a caller with two threads that share one client.          *)
(***************************************************************************)
EXTENDS Integers, Sequences, FiniteSets, TLC

VARIABLES
    variant,    \* which client file is in use
    phase,      \* "new" | "ready" | "failed" | "exited"
    self,       \* the client's session fields (server, timeout, token / cookies)
    log,        \* every request sent so far, "auth" or "read" by where it went
    call,       \* the most recent call: its operation and arguments
    sent,       \* the full requests sent by the most recent call
    resp,       \* the response the most recent call received
    outcome,    \* how the most recent call ended: a return or a raise
    issued,     \* the access_token the server put in its answer to POST /token
    conv,       \* a date on its way: the caller's value, its text on the wire, the parse
    plot,       \* what the plotting code made of the most recent counts
    flow        \* the script under way: its position, its variables, requests in flight

vars == <<variant, phase, self, log, call, sent, resp, outcome, issued, conv, plot, flow>>

-----------------------------------------------------------------------------
(* Bounds and input sets *)

MaxReads == 2

DefaultTimeout == 45

Variants == {"pats_service", "patsService", "example"}
TokenVariants == {"pats_service", "patsService"}

Users == {"alice"}
Passwords == {"secret"}
Timeouts == {DefaultTimeout, 10}
AccessTokens == {"tokA", "tokB"}
SessionCookies == {"sidA", "sidB"}
Statuses == {200, 401}

-----------------------------------------------------------------------------
(* Python values, tagged by type *)

None == [ty |-> "none"]
PyStr(s) == [ty |-> "str", s |-> s]
PyInt(i) == [ty |-> "int", i |-> i]
PyBool(b) == [ty |-> "bool", b |-> b]
PyList(l) == [ty |-> "list", l |-> l]
PyDict(d) == [ty |-> "dict", d |-> d]

EmptyDict == [k \in {} |-> ""]

Digit(d) ==
    CASE d = 0 -> "0" [] d = 1 -> "1" [] d = 2 -> "2" [] d = 3 -> "3"
      [] d = 4 -> "4" [] d = 5 -> "5" [] d = 6 -> "6" [] d = 7 -> "7"
      [] d = 8 -> "8" [] d = 9 -> "9"

RECURSIVE IntToStr(_)
IntToStr(n) ==
    IF n < 0 THEN "-" \o IntToStr(0 - n)
    ELSE IF n < 10 THEN Digit(n)
    ELSE IntToStr(n \div 10) \o Digit(n % 10)

\* str(x)
str(v) ==
    CASE v.ty = "str" -> v.s
      [] v.ty = "int" -> IntToStr(v.i)
      [] v.ty = "bool" -> (IF v.b THEN "True" ELSE "False")
      [] v.ty = "none" -> "None"
      \* the repr of a section dict; the repr of its list is abbreviated
      [] v.ty = "dict" -> "{'id': " \o IntToStr(v.d.id) \o ", 'customer_name': '"
                            \o v.d.customer_name \o "', 'detection_classes': [...]}"

\* int(x) of a bool or an int
int(v) ==
    CASE v.ty = "bool" -> (IF v.b THEN 1 ELSE 0)
      [] v.ty = "int" -> v.i

\* truthiness of a value in a condition
Truthy(v) ==
    CASE v.ty = "none" -> FALSE
      [] v.ty = "list" -> Len(v.l) > 0
      [] v.ty = "bool" -> v.b
      [] v.ty = "int" -> v.i # 0
      [] v.ty = "str" -> v.s # ""

\* ",".join(map(str, ids))
RECURSIVE JoinInts(_)
JoinInts(l) ==
    IF Len(l) = 0 THEN ""
    ELSE IF Len(l) = 1 THEN IntToStr(l[1])
    ELSE IntToStr(l[1]) \o "," \o JoinInts(Tail(l))

RECURSIVE ZeroPad(_, _)
ZeroPad(n, w) ==
    IF w <= 1 THEN IntToStr(n)
    ELSE IF n < 10 THEN "0" \o ZeroPad(n, w - 1)
    ELSE ZeroPad(n \div 10, w - 1) \o Digit(n % 10)

\* Faulty variant: the month and the day are written without zero padding.
StrftimeDate_unpadded(d) == ZeroPad(d.year, 4) \o IntToStr(d.month) \o IntToStr(d.day)

\* datetime.strftime("%Y%m%d")
StrftimeDate(d) == ZeroPad(d.year, 4) \o ZeroPad(d.month, 2) \o ZeroPad(d.day, 2)

\* datetime.strftime("%Y%m%d_%H%M%S")
StrftimeDateTime(d) ==
    StrftimeDate(d) \o "_" \o ZeroPad(d.hour, 2) \o ZeroPad(d.minute, 2) \o ZeroPad(d.second, 2)

(* Parsing a text with a format, as pd.to_datetime(text, format=...) does *)

DateFormat == <<"Y", "m", "d">>
DateTimeFormat == <<"Y", "m", "d", "_", "H", "M", "S">>

DigitVal(c) ==
    CASE c = "0" -> 0 [] c = "1" -> 1 [] c = "2" -> 2 [] c = "3" -> 3
      [] c = "4" -> 4 [] c = "5" -> 5 [] c = "6" -> 6 [] c = "7" -> 7
      [] c = "8" -> 8 [] c = "9" -> 9 [] OTHER -> -1

IsDigits(t) == \A i \in 1..Len(t) : DigitVal(SubSeq(t, i, i)) >= 0

RECURSIVE Num(_)
Num(t) ==
    IF Len(t) = 0 THEN 0
    ELSE Num(SubSeq(t, 1, Len(t) - 1)) * 10 + DigitVal(SubSeq(t, Len(t), Len(t)))

\* The widths a directive tries, in the order it tries them.
Widths(k) == IF k = "Y" THEN <<4>> ELSE IF k = "_" THEN <<1>> ELSE <<2, 1>>

\* Whether text t is a match of directive k.
FieldOk(k, t) ==
    IF k = "_" THEN t = "_"
    ELSE /\ IsDigits(t)
         /\ CASE k = "Y" -> TRUE
              [] k = "m" -> IF Len(t) = 2 THEN Num(t) \in 1..12 ELSE Num(t) \in 1..9
              [] k = "d" -> IF Len(t) = 2 THEN Num(t) \in 1..31 ELSE Num(t) \in 1..9
              [] k = "H" -> IF Len(t) = 2 THEN Num(t) \in 0..23 ELSE TRUE
              [] k = "M" -> IF Len(t) = 2 THEN Num(t) \in 0..59 ELSE TRUE
              [] k = "S" -> IF Len(t) = 2 THEN Num(t) \in 0..61 ELSE TRUE

NoMatch == [ok |-> FALSE, vals |-> <<>>, end |-> 0]

\* The directives of a format matched one after the other from position pos,
\* each taking its widest match that lets the rest match.
RECURSIVE Match(_, _, _)
Match(text, pos, fields) ==
    IF fields = <<>> THEN [ok |-> TRUE, vals |-> <<>>, end |-> pos]
    ELSE LET k == Head(fields)
             try(w) ==
                IF pos + w - 1 > Len(text) THEN NoMatch
                ELSE LET t == SubSeq(text, pos, pos + w - 1) IN
                     IF ~FieldOk(k, t) THEN NoMatch
                     ELSE LET rest == Match(text, pos + w, Tail(fields)) IN
                          IF ~rest.ok THEN NoMatch
                          ELSE [ok |-> TRUE,
                                vals |-> <<IF k = "_" THEN 0 ELSE Num(t)>> \o rest.vals,
                                end |-> rest.end]
             first == try(Widths(k)[1])
         IN IF first.ok \/ Len(Widths(k)) = 1 THEN first ELSE try(Widths(k)[2])

IsLeap(y) == (y % 4 = 0 /\ y % 100 # 0) \/ y % 400 = 0

DaysIn(y, m) ==
    IF m = 2 THEN (IF IsLeap(y) THEN 29 ELSE 28)
    ELSE IF m \in {4, 6, 9, 11} THEN 30 ELSE 31

\* A datetime value: year .. second and the microsecond.
PyDateTime(y, mo, d, h, mi, s, us) ==
    [year |-> y, month |-> mo, day |-> d, hour |-> h, minute |-> mi, second |-> s,
     microsecond |-> us]

-----------------------------------------------------------------------------
(* The requests library: requests, their encoding, responses *)

\* requests drops a query parameter whose value is None and writes every
\* other value into the URL as its str() text.
EncodeParams(params) ==
    [k \in {x \in DOMAIN params : params[x].ty # "none"} |-> str(params[k])]

\* json.dumps keeps the JSON type of each value.
ToJson(v) ==
    CASE v.ty = "str" -> [jt |-> "string", s |-> v.s]
      [] v.ty = "int" -> [jt |-> "number", n |-> v.i]
      [] v.ty = "bool" -> [jt |-> "boolean", b |-> v.b]
      [] v.ty = "list" -> [jt |-> "array", items |-> v.l]
      [] v.ty = "none" -> [jt |-> "null"]

JsonDumps(data) == [k \in DOMAIN data |-> ToJson(data[k])]

NoBody == [enc |-> "none"]
FormBody(fields) == [enc |-> "form", fields |-> fields]
JsonText(obj) == [enc |-> "json", obj |-> obj]

\* One HTTP request as it leaves the client.  timeout is None when the call
\* passes no timeout to requests.
Request(method, url, headers, params, data, timeout) ==
    [method |-> method, url |-> url, headers |-> headers,
     query |-> EncodeParams(params), body |-> data, timeout |-> timeout]

\* A response body, by the views the clients read: raw holds what
\* response.text and response.content give, json is present when
\* response.json() / json.loads parses it, image when PIL can open it.
TextBody(t) == [raw |-> t]
JsonBody(t, obj) == [raw |-> t, json |-> obj]
ImageBody(t, img) == [raw |-> t, image |-> img]

\* requests.exceptions raised when no response arrives
TransportErrors == {"Timeout", "ConnectionError"}
NoResponse(e) == [kind |-> "noresponse", exc |-> e]
Response(status, body) == [kind |-> "response", status_code |-> status, body |-> body]

Responses(bodies) ==
    {NoResponse(e) : e \in TransportErrors}
        \cup {Response(s, b) : s \in Statuses, b \in bodies}

(* How a call ends *)
Return(v) == [kind |-> "return", value |-> v]
RaiseExc(exc, args) == [kind |-> "raise", exc |-> exc, args |-> args]
\* sys.exit(code) raises SystemExit(code)
SysExit(code) == [kind |-> "raise", exc |-> "SystemExit", code |-> code]

\* response.json() and json.loads(response.text)
ResponseJson(body) ==
    IF "json" \in DOMAIN body THEN Return(body.json)
    ELSE RaiseExc("JSONDecodeError", <<>>)

\* d[key] on the outcome of a parse
Subscript(parsed, key) ==
    IF parsed.kind # "return" THEN parsed
    ELSE IF key \in DOMAIN parsed.value THEN Return(parsed.value[key])
    ELSE RaiseExc("KeyError", <<key>>)

\* pd.DataFrame.from_records(records)
DataFrameFromRecords(got) ==
    IF got.kind # "return" THEN got ELSE Return([df |-> got.value])

\* Image.open(BytesIO(response.content))
ImageOpen(body) ==
    IF "image" \in DOMAIN body THEN Return([image |-> body.image])
    ELSE RaiseExc("UnidentifiedImageError", <<>>)

\* The parse of text with a format: a datetime, or ValueError when the text
\* does not match the format, is longer than the match, or names no real day.
Strptime(text, fields) ==
    LET m == Match(text, 1, fields)
        v == m.vals
    IN IF ~m.ok \/ m.end # Len(text) + 1 THEN RaiseExc("ValueError", <<>>)
       ELSE IF v[1] < 1 \/ v[3] > DaysIn(v[1], v[2]) THEN RaiseExc("ValueError", <<>>)
       ELSE IF Len(v) = 3 THEN Return(PyDateTime(v[1], v[2], v[3], 0, 0, 0, 0))
       ELSE IF v[7] > 59 THEN RaiseExc("ValueError", <<>>)
       ELSE Return(PyDateTime(v[1], v[2], v[3], v[5], v[6], v[7], 0))

-----------------------------------------------------------------------------
(* pandas: the data frames the plot functions build from the rows of an answer *)

\* JSON values of the rows of a counts answer
JNum(n) == [jt |-> "number", n |-> n]
JNaN == [jt |-> "number", nan |-> TRUE]
JStr(t) == [jt |-> "string", s |-> t]

NaT == [ty |-> "NaT"]

\* pd.DataFrame.from_records(records): the columns are the keys of the
\* records; a record without one of them has NaN there.
DataFrame(records) ==
    LET cols == UNION {DOMAIN records[i] : i \in DOMAIN records}
    IN [columns |-> cols,
        rows |-> [i \in DOMAIN records |->
                    [c \in cols |-> IF c \in DOMAIN records[i] THEN records[i][c] ELSE JNaN]]]

\* df.dropna(axis=0, how="any")
DropNa(df) ==
    LET NoNaN(r) == \A c \in df.columns : r[c] # JNaN
    IN [columns |-> df.columns, rows |-> SelectSeq(df.rows, NoNaN)]

\* The column of stamps of the parsed cells: ValueError when one did not parse.
AllParsed(parsed) ==
    IF \E i \in DOMAIN parsed : parsed[i].kind = "raise"
    THEN RaiseExc("ValueError", <<>>)
    ELSE Return([i \in DOMAIN parsed |-> parsed[i].value])

\* pd.to_datetime(df[col], format=...): KeyError without the column, NaT for
\* NaN, ValueError when a text does not parse.
ToDatetime(df, col, fields) ==
    IF col \notin df.columns THEN RaiseExc("KeyError", <<col>>)
    ELSE AllParsed([i \in DOMAIN df.rows |->
                        IF df.rows[i][col] = JNaN THEN Return(NaT)
                        ELSE IF df.rows[i][col].jt # "string"
                        THEN RaiseExc("ValueError", <<>>)
                        ELSE Strptime(df.rows[i][col].s, fields)])

\* df['date'] = stamps; df.drop(columns=drop); df.set_index('date')
SetIndex(df, stamps, drop) ==
    [index |-> stamps, columns |-> df.columns \ drop,
     rows |-> [i \in DOMAIN df.rows |-> [c \in df.columns \ drop |-> df.rows[i][c]]]]

-----------------------------------------------------------------------------
(* pats_service.py: class PatsService (bearer token, query parameters) *)

\* Faulty variant: the scheme word is left out of the header.
BearerBare(self_) == [Authorization |-> self_.token]

\* headers = {"Authorization": "Bearer " + self.token}
Bearer(self_) == [Authorization |-> "Bearer " \o self_.token]

\* Faulty variant: the status of the token response is not looked at.
PS_retrieve_token_unchecked(self_, user, passw, server, r) ==
    [sent |-> <<Request("POST", server \o "/token", EmptyDict, EmptyDict,
                        FormBody([username |-> user, password |-> passw]),
                        PyInt(self_.timeout))>>,
     outcome |->
        IF r.kind = "noresponse" THEN RaiseExc(r.exc, <<>>)
        ELSE Subscript(ResponseJson(r.body), "access_token")]

\* PatsService.__retrieve_token_from_server
PS_retrieve_token_from_server(self_, user, passw, server, r) ==
    [sent |-> <<Request("POST", server \o "/token", EmptyDict, EmptyDict,
                        FormBody([username |-> user, password |-> passw]),
                        PyInt(self_.timeout))>>,
     outcome |->
        IF r.kind = "noresponse" THEN RaiseExc(r.exc, <<>>)
        ELSE IF r.status_code # 200 THEN SysExit(1)
        ELSE Subscript(ResponseJson(r.body), "access_token")]

PS_download_detection_classes(self_, a, r) ==
    [sent |-> <<Request("GET", self_.server \o "/api/detection_classes", Bearer(self_),
                        EmptyDict, NoBody, PyInt(self_.timeout))>>,
     outcome |->
        IF r.kind = "noresponse" THEN RaiseExc(r.exc, <<>>)
        ELSE IF r.status_code # 200 THEN SysExit(1)
        ELSE Subscript(ResponseJson(r.body), "detection_classes")]

PS_download_sections(self_, a, r) ==
    [sent |-> <<Request("GET", self_.server \o "/api/sections", Bearer(self_),
                        EmptyDict, NoBody, PyInt(self_.timeout))>>,
     outcome |->
        IF r.kind = "noresponse" THEN RaiseExc(r.exc, <<>>)
        ELSE IF r.status_code # 200 THEN SysExit(1)
        ELSE Subscript(ResponseJson(r.body), "sections")]

\* Faulty variant: the status of the response is not looked at.
PS_download_spots_unchecked(self_, a, r) ==
    [sent |-> <<Request("GET", self_.server \o "/api/spots", Bearer(self_),
                        [section_id |-> PyStr(str(a.section_id)),
                         snapping_mode |-> a.snapping_mode],
                        NoBody, PyInt(self_.timeout))>>,
     outcome |->
        IF r.kind = "noresponse" THEN RaiseExc(r.exc, <<>>)
        ELSE ResponseJson(r.body)]

\* Faulty variant: the spots of both kinds are put into one list under c.
PS_download_spots_merged(self_, a, r) ==
    [sent |-> <<Request("GET", self_.server \o "/api/spots", Bearer(self_),
                        [section_id |-> PyStr(str(a.section_id)),
                         snapping_mode |-> a.snapping_mode],
                        NoBody, PyInt(self_.timeout))>>,
     outcome |->
        IF r.kind = "noresponse" THEN RaiseExc(r.exc, <<>>)
        ELSE IF r.status_code # 200 THEN SysExit(1)
        ELSE LET got == ResponseJson(r.body)
             IN IF got.kind = "return" /\ {"c", "trapeye"} \subseteq DOMAIN got.value
                THEN Return([c |-> got.value.c \o got.value.trapeye, trapeye |-> <<>>])
                ELSE got]

PS_download_spots(self_, a, r) ==
    [sent |-> <<Request("GET", self_.server \o "/api/spots", Bearer(self_),
                        [section_id |-> PyStr(str(a.section_id)),
                         snapping_mode |-> a.snapping_mode],
                        NoBody, PyInt(self_.timeout))>>,
     outcome |->
        IF r.kind = "noresponse" THEN RaiseExc(r.exc, <<>>)
        ELSE IF r.status_code # 200 THEN SysExit(1)
        ELSE ResponseJson(r.body)]

\* Faulty variant: the id list is joined without the test for an empty or absent list.
PS_counts_params_always_joined(a) ==
    [section_id |-> PyStr(str(a.section_id)),
     start_date |-> PyStr(StrftimeDate(a.start_date)),
     end_date |-> PyStr(StrftimeDate(a.end_date)),
     detection_class_ids |->
        IF a.detection_class_ids.ty = "list"
        THEN PyStr(JoinInts(a.detection_class_ids.l)) ELSE None,
     bin_mode |-> a.bin_mode,
     average_24h_bin |-> PyInt(int(a.average_24h_bin))]

\* download_counts: the parameters of the request
PS_counts_params(a) ==
    LET section_id_str == str(a.section_id)
        start_date_formatted == StrftimeDate(a.start_date)
        end_date_formatted == StrftimeDate(a.end_date)
        detection_class_ids_str ==
            IF Truthy(a.detection_class_ids)
            THEN PyStr(JoinInts(a.detection_class_ids.l)) ELSE None
        average_24h_bin_num == int(a.average_24h_bin)
    IN [section_id |-> PyStr(section_id_str),
        start_date |-> PyStr(start_date_formatted),
        end_date |-> PyStr(end_date_formatted),
        detection_class_ids |-> detection_class_ids_str,
        bin_mode |-> a.bin_mode,
        average_24h_bin |-> PyInt(average_24h_bin_num)]

\* Faulty variant: a rejected request makes the client fetch a new token.
PS_download_counts_reauth(self_, a, r) ==
    [sent |-> <<Request("GET", self_.server \o "/api/counts", Bearer(self_),
                        PS_counts_params(a), NoBody, PyInt(self_.timeout))>>
              \o (IF r.kind = "response" /\ r.status_code # 200
                  THEN PS_retrieve_token_from_server(self_, "alice", "secret",
                                                     self_.server, r).sent
                  ELSE <<>>),
     outcome |->
        IF r.kind = "noresponse" THEN RaiseExc(r.exc, <<>>)
        ELSE IF r.status_code # 200 THEN SysExit(1)
        ELSE ResponseJson(r.body)]

PS_download_counts(self_, a, r) ==
    [sent |-> <<Request("GET", self_.server \o "/api/counts", Bearer(self_),
                        PS_counts_params(a), NoBody, PyInt(self_.timeout))>>,
     outcome |->
        IF r.kind = "noresponse" THEN RaiseExc(r.exc, <<>>)
        ELSE IF r.status_code # 200 THEN SysExit(1)
        ELSE ResponseJson(r.body)]

\* Faulty variant: a request without a response gives the empty list.
PS_download_trapeye_photo_list_swallowed(self_, a, r) ==
    [sent |-> <<Request("GET", self_.server \o "/api/trapeye_photo_list", Bearer(self_),
                        [section_id |-> PyStr(str(a.section_id)),
                         row_id |-> PyStr(str(a.row_id)),
                         post_id |-> PyStr(str(a.post_id)),
                         start_date |-> PyStr(StrftimeDate(a.start_date)),
                         end_date |-> PyStr(StrftimeDate(a.end_date))],
                        NoBody, PyInt(self_.timeout))>>,
     outcome |->
        IF r.kind = "noresponse" THEN Return(<<>>)
        ELSE IF r.status_code # 200 THEN SysExit(1)
        ELSE Subscript(ResponseJson(r.body), "photos")]

PS_download_trapeye_photo_list(self_, a, r) ==
    [sent |-> <<Request("GET", self_.server \o "/api/trapeye_photo_list", Bearer(self_),
                        [section_id |-> PyStr(str(a.section_id)),
                         row_id |-> PyStr(str(a.row_id)),
                         post_id |-> PyStr(str(a.post_id)),
                         start_date |-> PyStr(StrftimeDate(a.start_date)),
                         end_date |-> PyStr(StrftimeDate(a.end_date))],
                        NoBody, PyInt(self_.timeout))>>,
     outcome |->
        IF r.kind = "noresponse" THEN RaiseExc(r.exc, <<>>)
        ELSE IF r.status_code # 200 THEN SysExit(1)
        ELSE Subscript(ResponseJson(r.body), "photos")]

PS_download_trapeye_photo(self_, a, r) ==
    [sent |-> <<Request("GET", self_.server \o "/api/download_trapeye_photo", Bearer(self_),
                        [section_id |-> PyStr(str(a.section_id)),
                         row_id |-> PyStr(str(a.row_id)),
                         post_id |-> PyStr(str(a.post_id)),
                         datetime |-> a.photo_id],
                        NoBody, PyInt(self_.timeout))>>,
     outcome |->
        IF r.kind = "noresponse" THEN RaiseExc(r.exc, <<>>)
        ELSE IF r.status_code # 200 THEN RaiseExc("PatsServiceError", <<r.body.raw>>)
        ELSE ImageOpen(r.body)]

\* Faulty variant: the legacy id is added to the row and post ids, not sent in their place.
PS_detection_features_params_all(a) ==
    [section_id |-> PyStr(str(a.section_id)),
     row_id |-> PyStr(str(a.row_id)),
     post_id |-> PyStr(str(a.post_id)),
     system_id |-> PyStr(str(a.system_id)),
     detection_class_id |-> PyStr(str(a.detection_class_id)),
     start_datetime |-> PyStr(StrftimeDateTime(a.start_date)),
     end_datetime |-> PyStr(StrftimeDateTime(a.end_date))]

\* download_c_detection_features: the parameters of the request
PS_detection_features_params(a) ==
    LET start_date_formatted == StrftimeDateTime(a.start_date)
        end_date_formatted == StrftimeDateTime(a.end_date)
    IN  IF a.system_id = None
            THEN [section_id |-> PyStr(str(a.section_id)),
                  row_id |-> PyStr(str(a.row_id)),
                  post_id |-> PyStr(str(a.post_id)),
                  detection_class_id |-> PyStr(str(a.detection_class_id)),
                  start_datetime |-> PyStr(start_date_formatted),
                  end_datetime |-> PyStr(end_date_formatted)]
            ELSE [section_id |-> PyStr(str(a.section_id)),
                  system_id |-> PyStr(str(a.system_id)),
                  detection_class_id |-> PyStr(str(a.detection_class_id)),
                  start_datetime |-> PyStr(start_date_formatted),
                  end_datetime |-> PyStr(end_date_formatted)]

\* Faulty variant: on the system_id path the records are returned as they are.
PS_download_c_detection_features_legacy_raw(self_, a, r) ==
    [sent |-> <<Request("GET", self_.server \o "/api/download_detection_features",
                        Bearer(self_), PS_detection_features_params(a), NoBody,
                        PyInt(self_.timeout))>>,
     outcome |->
        IF r.kind = "noresponse" THEN RaiseExc(r.exc, <<>>)
        ELSE IF r.status_code # 200 THEN SysExit(1)
        ELSE IF a.system_id # None THEN Subscript(ResponseJson(r.body), "data")
        ELSE DataFrameFromRecords(Subscript(ResponseJson(r.body), "data"))]

PS_download_c_detection_features(self_, a, r) ==
    [sent |-> <<Request("GET", self_.server \o "/api/download_detection_features",
                        Bearer(self_), PS_detection_features_params(a), NoBody,
                        PyInt(self_.timeout))>>,
     outcome |->
        IF r.kind = "noresponse" THEN RaiseExc(r.exc, <<>>)
        ELSE IF r.status_code # 200 THEN SysExit(1)
        ELSE DataFrameFromRecords(Subscript(ResponseJson(r.body), "data"))]

\* Faulty variant: a request that fails is sent a second time.
PS_download_c_flight_track_retry(self_, a, r) ==
    LET req == Request("GET", self_.server \o "/api/download_c_flight_track", Bearer(self_),
                       [section_id |-> PyStr(str(a.section_id)),
                        detection_uid |-> PyStr(str(a.detection_uid))],
                       NoBody, PyInt(self_.timeout))
    IN
    [sent |-> IF r.kind = "noresponse" \/ r.status_code # 200 THEN <<req, req>> ELSE <<req>>,
     outcome |->
        IF r.kind = "noresponse" THEN RaiseExc(r.exc, <<>>)
        ELSE IF r.status_code # 200 THEN SysExit(1)
        ELSE DataFrameFromRecords(Subscript(ResponseJson(r.body), "data"))]

PS_download_c_flight_track(self_, a, r) ==
    [sent |-> <<Request("GET", self_.server \o "/api/download_c_flight_track", Bearer(self_),
                        [section_id |-> PyStr(str(a.section_id)),
                         detection_uid |-> PyStr(str(a.detection_uid))],
                        NoBody, PyInt(self_.timeout))>>,
     outcome |->
        IF r.kind = "noresponse" THEN RaiseExc(r.exc, <<>>)
        ELSE IF r.status_code # 200 THEN SysExit(1)
        ELSE DataFrameFromRecords(Subscript(ResponseJson(r.body), "data"))]

\* Faulty variant: the flag is written with str() without int() first.
PS_video_params_no_int(a) ==
    [section_id |-> PyStr(str(a.section_id)),
     detection_uid |-> PyStr(str(a.detection_uid)),
     raw_stereo |-> PyStr(str(a.raw_stereo))]

\* download_c_video: the parameters of the request
PS_video_params(a) ==
    LET raw_stereo_num == int(a.raw_stereo)
    IN [section_id |-> PyStr(str(a.section_id)),
        detection_uid |-> PyStr(str(a.detection_uid)),
        raw_stereo |-> PyStr(str(PyInt(raw_stereo_num)))]

PS_download_c_video(self_, a, r) ==
    [sent |-> <<Request("GET", self_.server \o "/api/download_c_video", Bearer(self_),
                        PS_video_params(a), NoBody, PyInt(self_.timeout))>>,
     outcome |->
        IF r.kind = "noresponse" THEN RaiseExc(r.exc, <<>>)
        ELSE IF r.status_code # 200 THEN SysExit(1)
        ELSE Return(r.body.raw)]

-----------------------------------------------------------------------------
(* patsService.py: the older PatsService (bearer token, query parameters) *)

\* x == True
EqTrue(v) ==
    CASE v.ty = "bool" -> v.b
      [] v.ty = "int" -> v.i = 1
      [] OTHER -> FALSE

OLD_retrieve_token_from_server(self_, user, passw, server, r) ==
    [sent |-> <<Request("POST", server \o "/token", EmptyDict, EmptyDict,
                        FormBody([username |-> user, password |-> passw]),
                        PyInt(self_.timeout))>>,
     outcome |->
        IF r.kind = "noresponse" THEN RaiseExc(r.exc, <<>>)
        ELSE IF r.status_code # 200 THEN SysExit(1)
        ELSE Subscript(ResponseJson(r.body), "access_token")]

OLD_download_detection_classes(self_, a, r) ==
    [sent |-> <<Request("GET", self_.server \o "/api/detection_classes", Bearer(self_),
                        EmptyDict, NoBody, PyInt(self_.timeout))>>,
     outcome |->
        IF r.kind = "noresponse" THEN RaiseExc(r.exc, <<>>)
        ELSE IF r.status_code # 200 THEN SysExit(1)
        ELSE Subscript(ResponseJson(r.body), "detection_classes")]

OLD_download_sections(self_, a, r) ==
    [sent |-> <<Request("GET", self_.server \o "/api/detection_classes", Bearer(self_),
                        EmptyDict, NoBody, PyInt(self_.timeout))>>,
     outcome |->
        IF r.kind = "noresponse" THEN RaiseExc(r.exc, <<>>)
        ELSE IF r.status_code # 200 THEN SysExit(1)
        ELSE Subscript(ResponseJson(r.body), "sections")]

OLD_download_spots(self_, a, r) ==
    LET map_snapping_num == int(PyBool(EqTrue(a.map_snapping))) IN
    [sent |-> <<Request("GET", self_.server \o "/api/spots", Bearer(self_),
                        [section_id |-> PyStr(str(a.section_id)),
                         map_snapping |-> PyInt(map_snapping_num)],
                        NoBody, PyInt(self_.timeout))>>,
     outcome |->
        IF r.kind = "noresponse" THEN RaiseExc(r.exc, <<>>)
        ELSE IF r.status_code # 200 THEN SysExit(1)
        ELSE ResponseJson(r.body)]

OLD_download_counts(self_, a, r) ==
    LET section_id_str == str(a.section_id)
        start_date_formatted == StrftimeDate(a.start_date)
        end_date_formatted == StrftimeDate(a.end_date)
        detection_class_ids_str ==
            IF Truthy(a.detection_class_ids)
            THEN PyStr(JoinInts(a.detection_class_ids.l)) ELSE None
        average_24h_bin_num == int(PyBool(EqTrue(a.average_24h_bin)))
    IN
    [sent |-> <<Request("GET", self_.server \o "/api/counts", Bearer(self_),
                        [section_id |-> PyStr(section_id_str),
                         start_date |-> PyStr(start_date_formatted),
                         end_date |-> PyStr(end_date_formatted),
                         detection_class_ids |-> detection_class_ids_str,
                         bin_mode |-> a.bin_mode,
                         average_24h_bin |-> PyInt(average_24h_bin_num)],
                        NoBody, PyInt(self_.timeout))>>,
     outcome |->
        IF r.kind = "noresponse" THEN RaiseExc(r.exc, <<>>)
        ELSE IF r.status_code # 200 THEN SysExit(1)
        ELSE ResponseJson(r.body)]

-----------------------------------------------------------------------------
(* example.py: functions on one requests.Session (cookie, JSON body) *)

\* server = pats_local_testing
EX_server == "http://127.0.0.1:5000/"

JsonHeaders(session) ==
    IF session.cookies = "" THEN [Content_Type |-> "application/json"]
    ELSE [Content_Type |-> "application/json", Cookie |-> session.cookies]

\* Faulty variant: the body of a 200 response is not compared with "OK".
EX_login_status_only(session, user, passw, r) ==
    [sent |-> <<Request("POST", EX_server \o "login", JsonHeaders(session), EmptyDict,
                        JsonText(JsonDumps([username |-> PyStr(user),
                                            password |-> PyStr(passw)])),
                        None)>>,
     outcome |->
        IF r.kind = "noresponse" THEN RaiseExc(r.exc, <<>>)
        ELSE IF r.status_code # 200
        THEN RaiseExc("Exception",
                      <<"Login failed: ", IntToStr(r.status_code), " msg: ", r.body.raw>>)
        ELSE Return(None)]

EX_login(session, user, passw, r) ==
    [sent |-> <<Request("POST", EX_server \o "login", JsonHeaders(session), EmptyDict,
                        JsonText(JsonDumps([username |-> PyStr(user),
                                            password |-> PyStr(passw)])),
                        None)>>,
     outcome |->
        IF r.kind = "noresponse" THEN RaiseExc(r.exc, <<>>)
        ELSE IF r.status_code # 200
        THEN RaiseExc("Exception",
                      <<"Login failed: ", IntToStr(r.status_code), " msg: ", r.body.raw>>)
        ELSE IF r.body.raw # "OK"
        THEN RaiseExc("Exception", <<"Login failed: ", r.body.raw>>)
        ELSE Return(None)]

EX_download_detection_classes(session, a, r) ==
    [sent |-> <<Request("GET", EX_server \o "api/detection_classes", JsonHeaders(session),
                        EmptyDict, NoBody, None)>>,
     outcome |->
        IF r.kind = "noresponse" THEN RaiseExc(r.exc, <<>>)
        ELSE IF r.status_code # 200
        THEN RaiseExc("Exception", <<"Download insect table failed: ",
                                     IntToStr(r.status_code), " msg: ", r.body.raw>>)
        ELSE Subscript(ResponseJson(r.body), "detection_classes")]

EX_download_sections(session, a, r) ==
    [sent |-> <<Request("GET", EX_server \o "api/sections", JsonHeaders(session),
                        EmptyDict, NoBody, None)>>,
     outcome |->
        IF r.kind = "noresponse" THEN RaiseExc(r.exc, <<>>)
        ELSE IF r.status_code # 200
        THEN RaiseExc("Exception", <<"Download sections failed: ",
                                     IntToStr(r.status_code), " msg: ", r.body.raw>>)
        ELSE Subscript(ResponseJson(r.body), "sections")]

EX_download_spots(session, a, r) ==
    [sent |-> <<Request("GET", EX_server \o "api/spots", JsonHeaders(session), EmptyDict,
                        JsonText(JsonDumps([section_id |-> a.section_id,
                                            map_snapping |-> PyInt(1)])),
                        None)>>,
     outcome |->
        IF r.kind = "noresponse" THEN RaiseExc(r.exc, <<>>)
        ELSE IF r.status_code # 200
        THEN RaiseExc("Exception", <<"Download spots failed: ",
                                     IntToStr(r.status_code), " msg: ", r.body.raw>>)
        ELSE ResponseJson(r.body)]

EX_download_counts(session, a, r) ==
    [sent |-> <<Request("GET", EX_server \o "api/counts", JsonHeaders(session), EmptyDict,
                        JsonText(JsonDumps([section_id |-> a.section_id,
                                            start_date |-> PyStr(StrftimeDate(a.start_date)),
                                            end_date |-> PyStr(StrftimeDate(a.end_date)),
                                            detection_class_ids |-> a.detection_class_ids])),
                        None)>>,
     outcome |->
        IF r.kind = "noresponse" THEN RaiseExc(r.exc, <<>>)
        ELSE IF r.status_code # 200
        THEN RaiseExc("Exception", <<"Download counts failed: ",
                                     IntToStr(r.status_code), " msg: ", r.body.raw>>)
        ELSE ResponseJson(r.body)]

EX_download_trapeye_photo_list(session, a, r) ==
    [sent |-> <<Request("GET", EX_server \o "api/trapeye_photo_list", JsonHeaders(session),
                        EmptyDict,
                        JsonText(JsonDumps([section_id |-> PyStr(str(a.section_id)),
                                            row_id |-> PyStr(str(a.row_id)),
                                            post_id |-> PyStr(str(a.post_id)),
                                            start_date |-> PyStr(StrftimeDate(a.start_date)),
                                            end_date |-> PyStr(StrftimeDate(a.end_date))])),
                        None)>>,
     outcome |->
        IF r.kind = "noresponse" THEN RaiseExc(r.exc, <<>>)
        ELSE IF r.status_code # 200
        THEN RaiseExc("Exception", <<"Download photo list failed: ",
                                     IntToStr(r.status_code), " msg: ", r.body.raw>>)
        ELSE Subscript(ResponseJson(r.body), "photos")]

EX_download_trapeye_photo(session, a, r) ==
    [sent |-> <<Request("POST", EX_server \o "api/download_trapeye_photo",
                        JsonHeaders(session), EmptyDict,
                        JsonText(JsonDumps([section_id |-> PyStr(str(a.section_id)),
                                            row_id |-> PyStr(str(a.row_id)),
                                            post_id |-> PyStr(str(a.post_id)),
                                            datetime |-> a.photo_id])),
                        None)>>,
     outcome |->
        IF r.kind = "noresponse" THEN RaiseExc(r.exc, <<>>)
        ELSE IF r.status_code # 200
        THEN RaiseExc("Exception", <<"Download photo failed: ",
                                     IntToStr(r.status_code), " msg: ", r.body.raw>>)
        ELSE ImageOpen(r.body)]

EX_download_c_detection_features(session, a, r) ==
    [sent |-> <<Request("GET", EX_server \o "api/download_detection_features",
                        JsonHeaders(session), EmptyDict,
                        JsonText(JsonDumps(
                            [section_id |-> PyStr(str(a.section_id)),
                             row_id |-> PyStr(str(a.row_id)),
                             post_id |-> PyStr(str(a.post_id)),
                             detection_class_id |-> PyStr(str(a.detection_class_id)),
                             start_datetime |-> PyStr(StrftimeDateTime(a.start_date)),
                             end_datetime |-> PyStr(StrftimeDateTime(a.end_date))])),
                        None)>>,
     outcome |->
        IF r.kind = "noresponse" THEN RaiseExc(r.exc, <<>>)
        ELSE IF r.status_code # 200
        THEN RaiseExc("Exception", <<"Download c data failed: ",
                                     IntToStr(r.status_code), " msg: ", r.body.raw>>)
        ELSE DataFrameFromRecords(Subscript(ResponseJson(r.body), "data"))]

EX_download_c_flight_track(session, a, r) ==
    [sent |-> <<Request("GET", EX_server \o "api/download_c_flight_track",
                        JsonHeaders(session), EmptyDict,
                        JsonText(JsonDumps([section_id |-> PyStr(str(a.section_id)),
                                            detection_uid |-> PyStr(str(a.detection_uid))])),
                        None)>>,
     outcome |->
        IF r.kind = "noresponse" THEN RaiseExc(r.exc, <<>>)
        ELSE IF r.status_code # 200
        THEN RaiseExc("Exception", <<"Download flight track failed: ",
                                     IntToStr(r.status_code), " msg: ", r.body.raw>>)
        ELSE DataFrameFromRecords(Subscript(ResponseJson(r.body), "data"))]

EX_download_c_video(session, a, r) ==
    [sent |-> <<Request("GET", EX_server \o "api/download_c_video", JsonHeaders(session),
                        EmptyDict,
                        JsonText(JsonDumps([section_id |-> PyStr(str(a.section_id)),
                                            detection_uid |-> PyStr(str(a.detection_uid)),
                                            convert_to_mp4 |-> PyBool(FALSE),
                                            raw_stereo |-> PyBool(FALSE)])),
                        None)>>,
     outcome |->
        IF r.kind = "noresponse" THEN RaiseExc(r.exc, <<>>)
        ELSE IF r.status_code # 200
        THEN RaiseExc("Exception", <<"Download flight track failed: ",
                                     IntToStr(r.status_code), " msg: ", r.body.raw>>)
        ELSE Return(r.body.raw)]

-----------------------------------------------------------------------------
(* plot_examples.py: class ExamplePlots, and the plot functions of example.py *)

NotRun == [kind |-> "notrun"]

\* ExamplePlots.__generate_label
generate_label(section) ==
    section.customer_name
        \o (IF section.greenhouse_name # None THEN " " \o section.greenhouse_name.s ELSE "")
        \o (IF section.name # None THEN " " \o section.name.s ELSE "")

\* for insect_id in df.columns: insect = insect_table[insect_id]; ... .plot(label=...)
\* how is "label" for insect['label'], "fstring" for f"{label} ({bb_label})",
\* "concat" for label + ' (' + bb_label + ')'.
PlotLines(frame, insect_table, how) ==
    IF \E c \in frame.columns : c \notin DOMAIN insect_table
    THEN RaiseExc("KeyError", <<CHOOSE c \in frame.columns : c \notin DOMAIN insect_table>>)
    ELSE IF how = "concat" /\ \E c \in frame.columns : insect_table[c].bb_label = None
    THEN RaiseExc("TypeError", <<>>)
    ELSE Return([c \in frame.columns |->
                    IF how = "label" THEN insect_table[c].label
                    ELSE insect_table[c].label \o " (" \o str(insect_table[c].bb_label) \o ")"])

Figure(title, frame, lines) ==
    IF lines.kind = "raise" THEN lines
    ELSE Return([title |-> title, index |-> frame.index, rows |-> frame.rows,
                 lines |-> lines.value])

\* One figure: a line per column of the frame, labelled from the insect table.
Plotted(title, frame, insect_table, how) ==
    Figure(title, frame, PlotLines(frame, insect_table, how))

\* df['date'] = pd.to_datetime(...); df.set_index('date'); then the figure.
\* The exception of to_datetime ends the function before anything is drawn.
Indexed(title, df, stamps, drop, insect_table, how) ==
    IF stamps.kind = "raise" THEN stamps
    ELSE Plotted(title, SetIndex(df, stamps.value, drop), insect_table, how)

SpotTitle(kind, section, spot) ==
    kind \o " @ " \o generate_label(section) \o " row " \o IntToStr(spot.row_id)
        \o " post " \o IntToStr(spot.post_id)

\* The figures of the sensors one after the other; the first exception ends the loop.
FirstRaise(figs) ==
    IF \E i \in DOMAIN figs : figs[i].kind = "raise"
    THEN figs[CHOOSE i \in DOMAIN figs :
                /\ figs[i].kind = "raise"
                /\ \A j \in 1..(i - 1) : figs[j].kind # "raise"]
    ELSE Return([i \in DOMAIN figs |-> figs[i].value])

\* Faulty variant: only the 'date' column is read.
PLOT_c_stamps_date_only(df) == ToDatetime(df, "date", DateFormat)

\* c_binned_per_day_plot: 'date' for bin_mode "D", 'datetime' for "H"
PLOT_c_stamps(df) ==
    IF "date" \in df.columns THEN ToDatetime(df, "date", DateFormat)
    ELSE ToDatetime(df, "datetime", DateTimeFormat)

\* c_binned_per_day_plot, the body of the loop from the data frame on
PLOT_c_figure(title, df, insect_table) ==
    Indexed(title, df, PLOT_c_stamps(df),
            IF "date" \in df.columns THEN {"date"} ELSE {"date", "datetime"},
            insect_table, "label")

PLOT_c_binned_per_day_plot(counts, section, insect_table) ==
    IF "c" \notin DOMAIN counts THEN RaiseExc("KeyError", <<"c">>)
    ELSE FirstRaise([i \in DOMAIN counts.c |->
            IF "counts" \notin DOMAIN counts.c[i] THEN RaiseExc("KeyError", <<"counts">>)
            ELSE PLOT_c_figure(SpotTitle("PATS-C", section, counts.c[i]),
                               DataFrame(counts.c[i].counts), insect_table)])

\* The sensors c_24h_distribution_plot draws: those before the first one
\* without 'avg_counts_24h', where the function returns.
PLOT_c_24h_drawn(c) ==
    IF \A i \in DOMAIN c : "avg_counts_24h" \in DOMAIN c[i] THEN Len(c)
    ELSE (CHOOSE i \in DOMAIN c :
            /\ "avg_counts_24h" \notin DOMAIN c[i]
            /\ \A j \in 1..(i - 1) : "avg_counts_24h" \in DOMAIN c[j]) - 1

\* c_24h_distribution_plot: returns at the first sensor without 'avg_counts_24h'
PLOT_c_24h_distribution_plot(counts, section, insect_table) ==
    IF "c" \notin DOMAIN counts THEN RaiseExc("KeyError", <<"c">>)
    ELSE FirstRaise([i \in 1..PLOT_c_24h_drawn(counts.c) |->
            Plotted(SpotTitle("PATS-C 24h distribution", section, counts.c[i]),
                    SetIndex(DataFrame(counts.c[i].avg_counts_24h), <<>>, {}),
                    insect_table, "label")])

\* Faulty variant: fillna(0) where the code has dropna.
PLOT_trapeye_frame_fillna(trapeye) ==
    LET df == DataFrame(trapeye.new_counts)
    IN [columns |-> df.columns,
        rows |-> [i \in DOMAIN df.rows |->
                    [c \in df.columns |-> IF df.rows[i][c] = JNaN THEN JNum(0)
                                          ELSE df.rows[i][c]]]]

\* trapeye_plot: the new counts without the rows that hold a NaN
PLOT_trapeye_frame(trapeye) == DropNa(DataFrame(trapeye.new_counts))

\* The figure of a Trap-Eye data frame: 'date' parsed, made the index, plotted.
TrapeyeFigure(title, df, insect_table, how) ==
    Indexed(title, df, ToDatetime(df, "date", DateFormat), {"date"}, insect_table, how)

PLOT_trapeye_plot(counts, section, insect_table) ==
    IF "trapeye" \notin DOMAIN counts THEN RaiseExc("KeyError", <<"trapeye">>)
    ELSE IF Len(counts.trapeye) = 0 THEN RaiseExc("IndexError", <<>>)
    ELSE TrapeyeFigure(SpotTitle("Trap-Eye", section, counts.trapeye[1]),
                       PLOT_trapeye_frame(counts.trapeye[1]), insect_table, "fstring")

\* example.py: example_c_plot, the body of the loop from the data frame on;
\* only the 'date' column is read
EX_example_c_figure(title, df, insect_table) ==
    Indexed(title, df, ToDatetime(df, "date", DateFormat), {"date"}, insect_table, "label")

EX_example_c_plot(counts, section, insect_table) ==
    IF "c" \notin DOMAIN counts THEN RaiseExc("KeyError", <<"c">>)
    ELSE FirstRaise([i \in DOMAIN counts.c |->
            EX_example_c_figure(SpotTitle("PATS-C", section, counts.c[i]),
                                DataFrame(counts.c[i].counts), insect_table)])

\* example.py: example_trapeye_plot keeps the rows that hold a NaN
EX_example_trapeye_plot(counts, section, insect_table) ==
    IF "trapeye" \notin DOMAIN counts THEN RaiseExc("KeyError", <<"trapeye">>)
    ELSE IF Len(counts.trapeye) = 0 THEN RaiseExc("IndexError", <<>>)
    ELSE TrapeyeFigure(SpotTitle("Trap-Eye", section, counts.trapeye[1]),
                       DataFrame(counts.trapeye[1].new_counts), insect_table, "concat")

\* The three plots in the order of the script; an exception ends the script,
\* so the plots after it are not run.
Shown(by, c, avg, trapeye) ==
    [by |-> by, c |-> c,
     avg |-> IF c.kind = "raise" THEN NotRun ELSE avg,
     trapeye |-> IF c.kind = "raise" \/ avg.kind = "raise" THEN NotRun ELSE trapeye]

\* main.py: the plots of the counts, each behind its test for sensors
MAIN_show_counts(counts, section, insect_table) ==
    IF "c" \notin DOMAIN counts
    THEN Shown("main", RaiseExc("KeyError", <<"c">>), NotRun, NotRun)
    ELSE Shown("main",
               IF Len(counts.c) > 0
               THEN PLOT_c_binned_per_day_plot(counts, section, insect_table) ELSE NotRun,
               IF Len(counts.c) > 0
               THEN PLOT_c_24h_distribution_plot(counts, section, insect_table) ELSE NotRun,
               IF "trapeye" \notin DOMAIN counts THEN RaiseExc("KeyError", <<"trapeye">>)
               ELSE IF Len(counts.trapeye) > 0
               THEN PLOT_trapeye_plot(counts, section, insect_table) ELSE NotRun)

\* example.py __main__: example_c_plot, then example_trapeye_plot
EX_show_counts(counts, section, insect_table) ==
    Shown("example", EX_example_c_plot(counts, section, insect_table), NotRun,
          EX_example_trapeye_plot(counts, section, insect_table))

-----------------------------------------------------------------------------
(* The environment: arguments a caller passes, responses a server gives *)

Servers == {"https://pats-c.com"}

SectionIds == {PyInt(7), PyInt(12)}
RowIds == {PyInt(42), None}
PostIds == {PyInt(21), None}
SystemIds == {None, PyInt(123)}
DetectionClassIds == {PyInt(3)}
DetectionClassIdLists == {None, PyList(<<>>), PyList(<<24, 3, 1>>)}
Bools == {PyBool(FALSE), PyBool(TRUE)}
SnappingModes == {PyStr("disabled"), PyStr("auto"), PyStr("row"), PyStr("post")}
\* snapping_mode is typed str: a caller may pass a text that names no mode
SnappingModesGiven == SnappingModes \cup {PyStr("grid")}
DetectionUids == {PyInt(1001)}
PhotoIds == {PyStr("20240708_222545")}

DateTime(y, mo, d, h, mi, s) ==
    [year |-> y, month |-> mo, day |-> d, hour |-> h, minute |-> mi, second |-> s]

\* <<start, end>> pairs
DateRanges ==
    {<<DateTime(2024, 7, 8, 22, 25, 45), DateTime(2024, 11, 30, 0, 0, 0)>>,
     <<DateTime(2024, 12, 31, 9, 5, 0), DateTime(2024, 7, 8, 22, 25, 45)>>}

OneRange == <<DateTime(2024, 7, 8, 12, 0, 0), DateTime(2024, 8, 7, 12, 0, 0)>>

NoArgs == [none |-> TRUE]

(* Response bodies *)
ErrorText == TextBody("Unauthorized")
OtherJson == JsonBody("{\"error\": \"expired\"}", [error |-> "expired"])

TokenBodies ==
    {JsonBody("{\"access_token\": \"" \o t \o "\"}", [access_token |-> t]) : t \in AccessTokens}
        \cup {ErrorText, OtherJson}

LoginBodies == {TextBody("OK"), TextBody("NOK"), ErrorText}

ClassTable ==
    ("1" :> [id |-> 1, label |-> "Chrysodeixis chalcites", bb_label |-> None])
        @@ ("3" :> [id |-> 3, label |-> "Tuta absoluta", bb_label |-> PyStr("ta")])

DetectionClassesBodies ==
    {JsonBody("{\"detection_classes\": {...}}", [detection_classes |-> ClassTable]),
     ErrorText, OtherJson}

SectionClass(id, in_c) == [id |-> id, available_in_c |-> in_c, label |-> "Tuta absoluta"]
Section(id, classes) ==
    [id |-> id, customer_name |-> "acme", greenhouse_name |-> None, name |-> PyStr("A1"),
     detection_classes |-> classes]

SectionsBodies ==
    {JsonBody("{\"sections\": [7]}",
              [sections |-> <<Section(7, <<SectionClass(1, 0), SectionClass(3, 1)>>)>>]),
     JsonBody("{\"sections\": [12, 7]}",
              [sections |-> <<Section(12, <<SectionClass(3, 0)>>),
                              Section(7, <<SectionClass(3, 1)>>)>>]),
     ErrorText, OtherJson}

CSpot(row, post, system) == [row_id |-> row, post_id |-> post, system_id |-> system]
TrapeyeSpot(row, post, unit) == [row_id |-> row, post_id |-> post, unit_id |-> unit]

SpotsBodies ==
    {JsonBody("{\"c\": [1], \"trapeye\": [1]}",
              [c |-> <<CSpot(PyInt(42), PyInt(21), PyInt(123))>>,
               trapeye |-> <<TrapeyeSpot(PyInt(21), PyInt(42), PyInt(9876))>>]),
     JsonBody("{\"c\": [1], \"trapeye\": []}",
              [c |-> <<CSpot(None, None, PyInt(123))>>, trapeye |-> <<>>]),
     JsonBody("{\"c\": [2], \"trapeye\": [1]}",
              [c |-> <<CSpot(None, None, PyInt(123)), CSpot(PyInt(42), PyInt(21), None)>>,
               trapeye |-> <<TrapeyeSpot(PyInt(5), PyInt(6), PyInt(9876))>>]),
     JsonBody("{\"c\": [], \"trapeye\": [1]}",
              [c |-> <<>>, trapeye |-> <<TrapeyeSpot(PyInt(5), PyInt(6), PyInt(9876))>>]),
     ErrorText, OtherJson}

\* One bucket: the timestamp under its key and the number of class "3".
Bucket(key, stamp, n) == (key :> JStr(stamp)) @@ ("3" :> n)

DailyC ==
    [row_id |-> 42, post_id |-> 21,
     counts |-> <<Bucket("date", "20240708", JNum(4)), Bucket("date", "20240709", JNum(0))>>]
HourlyC ==
    [row_id |-> 42, post_id |-> 21,
     counts |-> <<Bucket("datetime", "20240708_120000", JNum(1)),
                  Bucket("datetime", "20240708_130000", JNum(0))>>]

\* A trapeye series: absolute counts 8 then 10, first giving the first
\* bucket's new count and diff as the server states them.
TrapeyeSeries(first) ==
    [row_id |-> 34, post_id |-> 2,
     absolute_count |-> <<Bucket("date", "20240709", JNum(8)) @@ ("ta_diff" :> first),
                          Bucket("date", "20240711", JNum(10)) @@ ("ta_diff" :> JNum(2))>>,
     new_counts |-> <<Bucket("date", "20240709", first),
                      Bucket("date", "20240711", JNum(2))>>]

CountsBodies ==
    {JsonBody("{\"c\": [D], \"trapeye\": [T]}",
              [c |-> <<DailyC>>, trapeye |-> <<TrapeyeSeries(JNaN)>>]),
     JsonBody("{\"c\": [H], \"trapeye\": []}", [c |-> <<HourlyC>>, trapeye |-> <<>>]),
     JsonBody("{\"c\": [], \"trapeye\": [T0]}",
              [c |-> <<>>, trapeye |-> <<TrapeyeSeries(JNum(0))>>]),
     ErrorText, OtherJson}

\* The server bins by the bin_mode of the request, "D" when there is none:
\* c rows carry date for "D" and datetime for "H".
StampKeysOf(body) ==
    IF "json" \in DOMAIN body /\ "c" \in DOMAIN body.json
    THEN UNION {UNION {DOMAIN body.json.c[i].counts[j] \cap {"date", "datetime"} :
                        j \in DOMAIN body.json.c[i].counts} : i \in DOMAIN body.json.c}
    ELSE {}

CountsBodiesFor(a) ==
    LET key == IF "bin_mode" \in DOMAIN a /\ a.bin_mode = PyStr("H") THEN "datetime"
               ELSE "date"
    IN {b \in CountsBodies : StampKeysOf(b) \subseteq {key}}

PhotoListBodies ==
    {JsonBody("{\"photos\": [2]}", [photos |-> <<"20240710_120000", "20240708_222545">>]),
     JsonBody("{\"photos\": []}", [photos |-> <<>>]),
     ErrorText, OtherJson}

PhotoBodies == {ImageBody("<jpeg>", "card"), ErrorText, OtherJson}

DetectionFeaturesBodies ==
    {JsonBody("{\"data\": [2]}", [data |-> <<[uid |-> 1001, duration |-> 2, size |-> 1],
                                              [uid |-> 1002, duration |-> 5, size |-> 1]>>]),
     JsonBody("{\"data\": []}", [data |-> <<>>]),
     ErrorText, OtherJson}

FlightTrackBodies ==
    {JsonBody("{\"data\": [1]}", [data |-> <<[elapsed |-> 0, sposX_insect |-> 1, sposY_insect |-> 1,
                              sposZ_insect |-> 1]>>]),
     ErrorText, OtherJson}

VideoBodies == {TextBody("<mkv>"), ErrorText, OtherJson}

-----------------------------------------------------------------------------
(* Constructors *)

NoClient == [none |-> TRUE]

\* PatsService.__init__ of pats_service.py: server and timeout are stored,
\* then the token is fetched; the instance exists only when that returns.
PS_init(user, passw, server, timeout, r) ==
    LET half == [server |-> server, timeout |-> timeout]
        got == PS_retrieve_token_from_server(half, user, passw, server, r)
    IN [sent |-> got.sent, outcome |-> got.outcome,
        self |-> IF got.outcome.kind = "return"
                 THEN [server |-> server, timeout |-> timeout, token |-> got.outcome.value]
                 ELSE NoClient]

\* PatsService.__init__ of patsService.py
OLD_init(user, passw, server, timeout, r) ==
    LET half == [server |-> server, timeout |-> timeout]
        got == OLD_retrieve_token_from_server(half, user, passw, server, r)
    IN [sent |-> got.sent, outcome |-> got.outcome,
        self |-> IF got.outcome.kind = "return"
                 THEN [server |-> server, timeout |-> timeout, token |-> got.outcome.value]
                 ELSE NoClient]

\* requests.Session keeps the cookie a response sets.
SessionSend(session, r) ==
    IF "set_cookie" \in DOMAIN r /\ r.set_cookie # "" THEN [cookies |-> r.set_cookie]
    ELSE session

LoginResponses ==
    {NoResponse(e) : e \in TransportErrors}
        \cup {[kind |-> "response", status_code |-> s, body |-> b, set_cookie |-> c] :
                s \in Statuses, b \in LoginBodies, c \in SessionCookies}

\* The read operations each client file defines.
ReadOps ==
    {"download_detection_classes", "download_sections", "download_spots",
     "download_counts", "download_trapeye_photo_list", "download_trapeye_photo",
     "download_c_detection_features", "download_c_flight_track", "download_c_video"}

OpsOf(v) ==
    IF v = "patsService"
    THEN {"download_detection_classes", "download_sections", "download_spots",
          "download_counts"}
    ELSE ReadOps

\* The call of operation op of client file v.
ClientCall(v, op, self_, a, r) ==
    CASE v = "pats_service" ->
            (CASE op = "download_detection_classes" -> PS_download_detection_classes(self_, a, r)
               [] op = "download_sections" -> PS_download_sections(self_, a, r)
               [] op = "download_spots" -> PS_download_spots(self_, a, r)
               [] op = "download_counts" -> PS_download_counts(self_, a, r)
               [] op = "download_trapeye_photo_list" -> PS_download_trapeye_photo_list(self_, a, r)
               [] op = "download_trapeye_photo" -> PS_download_trapeye_photo(self_, a, r)
               [] op = "download_c_detection_features" ->
                    PS_download_c_detection_features(self_, a, r)
               [] op = "download_c_flight_track" -> PS_download_c_flight_track(self_, a, r)
               [] op = "download_c_video" -> PS_download_c_video(self_, a, r))
      [] v = "patsService" ->
            (CASE op = "download_detection_classes" -> OLD_download_detection_classes(self_, a, r)
               [] op = "download_sections" -> OLD_download_sections(self_, a, r)
               [] op = "download_spots" -> OLD_download_spots(self_, a, r)
               [] op = "download_counts" -> OLD_download_counts(self_, a, r))
      [] v = "example" ->
            (CASE op = "download_detection_classes" -> EX_download_detection_classes(self_, a, r)
               [] op = "download_sections" -> EX_download_sections(self_, a, r)
               [] op = "download_spots" -> EX_download_spots(self_, a, r)
               [] op = "download_counts" -> EX_download_counts(self_, a, r)
               [] op = "download_trapeye_photo_list" -> EX_download_trapeye_photo_list(self_, a, r)
               [] op = "download_trapeye_photo" -> EX_download_trapeye_photo(self_, a, r)
               [] op = "download_c_detection_features" ->
                    EX_download_c_detection_features(self_, a, r)
               [] op = "download_c_flight_track" -> EX_download_c_flight_track(self_, a, r)
               [] op = "download_c_video" -> EX_download_c_video(self_, a, r))

-----------------------------------------------------------------------------
(* The state machine *)

NoCall == [op |-> "none"]
NoOutcome == [kind |-> "none"]
NoConv == [stage |-> "idle"]
NoPlot == [by |-> "none"]
NoFlow == [caller |-> "none"]

Init ==
    /\ variant \in Variants
    /\ phase = "new"
    /\ self = IF variant = "example" THEN [cookies |-> ""] ELSE NoClient
    /\ log = <<>>
    /\ call = NoCall
    /\ sent = <<>>
    /\ resp = [kind |-> "none"]
    /\ outcome = NoOutcome
    /\ issued = ""
    /\ conv = NoConv
    /\ plot = NoPlot
    /\ flow = NoFlow

\* The authentication endpoints: POST <server>/token and POST <server>login.
AuthUrls == {s \o "/token" : s \in Servers} \cup {EX_server \o "login"}

\* A request is an authentication exchange or a read, by where it goes.
LogEntry(req) == IF req.method = "POST" /\ req.url \in AuthUrls THEN "auth" ELSE "read"

\* What every call does to the observable record of the run.
Record(op, a, r, res) ==
    /\ call' = [op |-> op, args |-> a]
    /\ sent' = res.sent
    /\ log' = log \o [i \in 1..Len(res.sent) |-> LogEntry(res.sent[i])]
    /\ resp' = r
    /\ outcome' = res.outcome

\* SystemExit ends the process unless the caller intercepts it; every other
\* exception is an Exception the caller may handle.
Exits(out, caught) == out.kind = "raise" /\ out.exc = "SystemExit" /\ ~caught
Catches(out) == IF out.kind = "raise" /\ out.exc = "SystemExit" THEN BOOLEAN ELSE {TRUE}

\* The access_token member of a token response, "" when it has none.
AccessTokenOf(r) ==
    IF r.kind = "response" /\ "json" \in DOMAIN r.body
            /\ "access_token" \in DOMAIN r.body.json
    THEN r.body.json.access_token ELSE ""

\* pats_service = PatsService(user=user, passw=passw)
Construct ==
    /\ variant \in TokenVariants
    /\ phase = "new"
    /\ \E user \in Users, passw \in Passwords, server \in Servers, timeout \in Timeouts,
          r \in Responses(TokenBodies) :
        LET res == IF variant = "pats_service"
                   THEN PS_init(user, passw, server, timeout, r)
                   ELSE OLD_init(user, passw, server, timeout, r)
        IN /\ Record("__init__", [user |-> user, passw |-> passw, server |-> server,
                                  timeout |-> timeout], r, res)
           /\ self' = res.self
           /\ issued' = AccessTokenOf(r)
           /\ \E caught \in Catches(res.outcome) :
                phase' = IF res.outcome.kind = "return" THEN "ready"
                         ELSE IF Exits(res.outcome, caught) THEN "exited" ELSE "failed"
    /\ UNCHANGED <<variant, conv, plot, flow>>

\* with requests.Session() as session: login(session)
Login ==
    /\ variant = "example"
    /\ phase = "new"
    /\ \E user \in Users, passw \in Passwords, r \in LoginResponses :
        LET res == EX_login(self, user, passw, r)
        IN /\ Record("login", [user |-> user, passw |-> passw], r, res)
           /\ self' = SessionSend(self, r)
           /\ phase' = IF res.outcome.kind = "return" THEN "ready" ELSE "failed"
    /\ UNCHANGED <<variant, issued, conv, plot, flow>>

CanRead(op) == phase = "ready" /\ Len(log) <= MaxReads /\ op \in OpsOf(variant)

\* Faulty variant: a rejected read drops the token of the client.
Call_token_dropped(op, a, r, res) ==
    /\ Record(op, a, r, res)
    /\ self' = IF variant = "example" THEN SessionSend(self, r)
               ELSE IF r.kind = "response" /\ r.status_code # 200
               THEN [self EXCEPT !.token = ""] ELSE self
    /\ \E caught \in Catches(res.outcome) :
        phase' = IF Exits(res.outcome, caught) THEN "exited" ELSE "ready"
    /\ plot' = NoPlot
    /\ UNCHANGED <<variant, issued, flow>>

\* One read operation called with arguments a and answered with r.
Call(op, a, r, res) ==
    /\ Record(op, a, r, res)
    /\ self' = IF variant = "example" THEN SessionSend(self, r) ELSE self
    /\ \E caught \in Catches(res.outcome) :
        phase' = IF Exits(res.outcome, caught) THEN "exited" ELSE "ready"
    /\ plot' = NoPlot
    /\ UNCHANGED <<variant, issued, flow>>

Read(op, a, r, res) == Call(op, a, r, res) /\ UNCHANGED conv

DownloadDetectionClasses ==
    /\ CanRead("download_detection_classes")
    /\ \E r \in Responses(DetectionClassesBodies) :
        Read("download_detection_classes", NoArgs, r, ClientCall(variant, "download_detection_classes", self, NoArgs, r))

DownloadSections ==
    /\ CanRead("download_sections")
    /\ \E r \in Responses(SectionsBodies) :
        Read("download_sections", NoArgs, r, ClientCall(variant, "download_sections", self, NoArgs, r))

SpotsArgs ==
    CASE variant = "pats_service" ->
            {[section_id |-> s, snapping_mode |-> m] :
                s \in {PyInt(12)}, m \in SnappingModesGiven}
      [] variant = "patsService" ->
            {[section_id |-> s, map_snapping |-> m] : s \in SectionIds, m \in Bools}
      [] variant = "example" -> {[section_id |-> s] : s \in SectionIds}

DownloadSpots ==
    /\ CanRead("download_spots")
    /\ \E a \in SpotsArgs, r \in Responses(SpotsBodies) :
        Read("download_spots", a, r, ClientCall(variant, "download_spots", self, a, r))

CountsArgs ==
    IF variant = "example"
    THEN {[section_id |-> s, detection_class_ids |-> ids,
           start_date |-> dr[1], end_date |-> dr[2]] :
            s \in {PyInt(7)}, ids \in DetectionClassIdLists, dr \in {OneRange}}
    ELSE {[section_id |-> PyInt(7), detection_class_ids |-> ids,
           start_date |-> dr[1], end_date |-> dr[2],
           bin_mode |-> PyStr(IF avg.b THEN "H" ELSE "D"), average_24h_bin |-> avg] :
            ids \in DetectionClassIdLists, dr \in {OneRange}, avg \in Bools}

DownloadCounts ==
    /\ CanRead("download_counts")
    /\ \E a \in CountsArgs : \E r \in Responses(CountsBodiesFor(a)) :
        Read("download_counts", a, r, ClientCall(variant, "download_counts", self, a, r))

PhotoListArgs ==
    {[section_id |-> s, row_id |-> PyInt(34), post_id |-> PyInt(2),
      start_date |-> dr[1], end_date |-> dr[2]] : s \in {PyInt(12)}, dr \in DateRanges}

DownloadTrapeyePhotoList ==
    /\ CanRead("download_trapeye_photo_list")
    /\ \E a \in PhotoListArgs, r \in Responses(PhotoListBodies) :
        Read("download_trapeye_photo_list", a, r, ClientCall(variant, "download_trapeye_photo_list", self, a, r))

PhotoArgs ==
    {[section_id |-> s, row_id |-> PyInt(34), post_id |-> PyInt(2), photo_id |-> p] :
        s \in SectionIds, p \in PhotoIds}

DownloadTrapeyePhoto ==
    /\ CanRead("download_trapeye_photo")
    /\ \E a \in PhotoArgs, r \in Responses(PhotoBodies) :
        Read("download_trapeye_photo", a, r, ClientCall(variant, "download_trapeye_photo", self, a, r))

DetectionFeaturesArgs ==
    IF variant = "example"
    THEN {[section_id |-> PyInt(7), row_id |-> row, post_id |-> post,
           detection_class_id |-> dc, start_date |-> dr[1], end_date |-> dr[2]] :
            row \in RowIds, post \in PostIds, dc \in DetectionClassIds, dr \in {OneRange}}
    ELSE {[section_id |-> PyInt(7), row_id |-> row, post_id |-> post, system_id |-> sys,
           detection_class_id |-> dc, start_date |-> dr[1], end_date |-> dr[2]] :
            row \in RowIds, post \in PostIds, sys \in SystemIds,
            dc \in DetectionClassIds, dr \in {OneRange}}

DownloadCDetectionFeatures ==
    /\ CanRead("download_c_detection_features")
    /\ \E a \in DetectionFeaturesArgs, r \in Responses(DetectionFeaturesBodies) :
        Read("download_c_detection_features", a, r, ClientCall(variant, "download_c_detection_features", self, a, r))

FlightTrackArgs ==
    {[section_id |-> s, detection_uid |-> u] : s \in SectionIds, u \in DetectionUids}

DownloadCFlightTrack ==
    /\ CanRead("download_c_flight_track")
    /\ \E a \in FlightTrackArgs, r \in Responses(FlightTrackBodies) :
        Read("download_c_flight_track", a, r, ClientCall(variant, "download_c_flight_track", self, a, r))

VideoArgs ==
    IF variant = "example"
    THEN {[section_id |-> s, detection_uid |-> u] : s \in SectionIds, u \in DetectionUids}
    ELSE {[section_id |-> s, detection_uid |-> u, raw_stereo |-> b] :
            s \in SectionIds, u \in DetectionUids, b \in Bools}

DownloadCVideo ==
    /\ CanRead("download_c_video")
    /\ \E a \in VideoArgs, r \in Responses(VideoBodies) :
        Read("download_c_video", a, r, ClientCall(variant, "download_c_video", self, a, r))

\* The arguments and the responses the environment offers operation op.
ArgsOf(op) ==
    CASE op = "download_spots" -> SpotsArgs
      [] op = "download_counts" -> CountsArgs
      [] op = "download_trapeye_photo_list" -> PhotoListArgs
      [] op = "download_trapeye_photo" -> PhotoArgs
      [] op = "download_c_detection_features" -> DetectionFeaturesArgs
      [] op = "download_c_flight_track" -> FlightTrackArgs
      [] op = "download_c_video" -> VideoArgs
      [] OTHER -> {NoArgs}

\* The section and the detection-class table the plots are given.
PlotSections == {Section(7, <<SectionClass(3, 1)>>)}
PlotTables == {ClassTable}

\* The counts just downloaded are plotted; an exception of a plot function
\* is not handled and ends the script.
\* An exception in a plot function ends the script.
PlotFailed(shown) == "raise" \in {shown.c.kind, shown.avg.kind, shown.trapeye.kind}

ShowCounts ==
    /\ variant \in {"pats_service", "example"}
    /\ phase = "ready"
    /\ call.op = "download_counts"
    /\ outcome.kind = "return"
    /\ plot = NoPlot
    /\ \E section \in PlotSections, insect_table \in PlotTables :
        plot' = IF variant = "pats_service"
                THEN MAIN_show_counts(outcome.value, section, insect_table)
                ELSE EX_show_counts(outcome.value, section, insect_table)
    /\ phase' = IF PlotFailed(plot') THEN "failed" ELSE "ready"
    /\ UNCHANGED <<variant, self, log, call, sent, resp, outcome, issued, conv, flow>>

Next ==
    \/ Construct
    \/ Login
    \/ DownloadDetectionClasses
    \/ DownloadSections
    \/ DownloadSpots
    \/ DownloadCounts
    \/ DownloadTrapeyePhotoList
    \/ DownloadTrapeyePhoto
    \/ DownloadCDetectionFeatures
    \/ DownloadCFlightTrack
    \/ DownloadCVideo
    \/ ShowCounts

Spec == Init /\ [][Next]_vars

-----------------------------------------------------------------------------
(* Dates on the wire: the caller's datetime, the text a read operation puts
   in its request, and the parse of that text with the format it was written
   with. *)

ConvDays ==
    {<<2023, 2, 1>>, <<2023, 2, 28>>, <<2023, 7, 8>>, <<2023, 11, 30>>, <<2023, 12, 31>>,
     <<2024, 1, 1>>, <<2024, 2, 29>>, <<2024, 7, 8>>, <<2024, 10, 10>>, <<2024, 11, 1>>}
ConvTimes == {<<0, 0, 0>>, <<9, 5, 0>>, <<22, 25, 45>>, <<23, 59, 59>>}
ConvMicroseconds == {0, 123456}

ConvDateTimes ==
    {PyDateTime(d[1], d[2], d[3], t[1], t[2], t[3], us) :
        d \in ConvDays, t \in ConvTimes, us \in ConvMicroseconds}

ConvEnd == PyDateTime(2024, 12, 9, 7, 0, 3, 999999)

\* The operations that take a date range, the names of their date parameters
\* and the format each writes them with.
DateOps == {"download_counts", "download_trapeye_photo_list", "download_c_detection_features"}
DateKeys(op) ==
    IF op = "download_c_detection_features" THEN <<"start_datetime", "end_datetime">>
    ELSE <<"start_date", "end_date">>
FormatOf(op) == IF op = "download_c_detection_features" THEN DateTimeFormat ELSE DateFormat

BodiesOf(op, a) ==
    CASE op = "download_counts" -> CountsBodiesFor(a)
      [] op = "download_trapeye_photo_list" -> PhotoListBodies
      [] op = "download_c_detection_features" -> DetectionFeaturesBodies

\* The other arguments of the call.
BaseArgs(op) == CHOOSE a \in ArgsOf(op) : TRUE

\* A read operation called with the range <<d, ConvEnd>>; the texts of the
\* two dates are read off the request it sent.
TransmitDates ==
    /\ conv.stage = "idle"
    /\ \E op \in DateOps, d \in ConvDateTimes :
        /\ CanRead(op)
        /\ \E r \in Responses(BodiesOf(op, BaseArgs(op))) :
            LET base == BaseArgs(op)
                a == [base EXCEPT !.start_date = d, !.end_date = ConvEnd]
                res == ClientCall(variant, op, self, a, r)
                req == res.sent[1]
            IN /\ Call(op, a, r, res)
               /\ conv' = [stage |-> "sent", op |-> op, value |-> <<d, ConvEnd>>,
                            wire |-> [i \in 1..2 |->
                                        IF DateKeys(op)[i] \in DOMAIN req.query
                                        THEN [jt |-> "string", s |-> req.query[DateKeys(op)[i]]]
                                        ELSE req.body.obj[DateKeys(op)[i]]]]

\* The receiver parses both texts with the format of the operation.
ParseDates ==
    /\ conv.stage = "sent"
    /\ \A i \in 1..2 : conv.wire[i].jt = "string"
    /\ conv' = [stage |-> "parsed", op |-> conv.op, value |-> conv.value, wire |-> conv.wire,
                 parsed |-> [i \in 1..2 |-> Strptime(conv.wire[i].s, FormatOf(conv.op))]]
    /\ UNCHANGED <<variant, phase, self, log, call, sent, resp, outcome, issued, plot, flow>>

DateNext == Construct \/ Login \/ TransmitDates \/ ParseDates

DateSpec == Init /\ [][DateNext]_vars

-----------------------------------------------------------------------------
(* The scripts: __main__ of main.py (on pats_service.py) and of example.py *)

\* The last day of the month before that of d.
PrevMonthEnd(d) ==
    IF d.month > 1 THEN [d EXCEPT !.month = @ - 1, !.day = DaysIn(d.year, d.month - 1)]
    ELSE [d EXCEPT !.year = @ - 1, !.month = 12, !.day = 31]

\* d - timedelta(days=n): within the month, or from the end of the month before
RECURSIVE DaysBefore(_, _)
DaysBefore(d, n) ==
    IF n < d.day THEN [d EXCEPT !.day = @ - n]
    ELSE DaysBefore(PrevMonthEnd(d), n - d.day)

\* d.replace(hour=12, minute=0, second=0, microsecond=0)
AtNoon(d) == [d EXCEPT !.hour = 12, !.minute = 0, !.second = 0]

\* The days on which the script is run: datetime.today()
Todays == {DateTime(2024, 3, 15, 9, 5, 0), DateTime(2024, 1, 10, 23, 59, 59)}

\* The columns of a data frame made from records.
Columns(records) == UNION {DOMAIN records[i] : i \in DOMAIN records}

\* df[col] for each of cols: KeyError for the first one that is no column
NeedsColumns(records, cols) ==
    IF \A i \in DOMAIN cols : cols[i] \in Columns(records) THEN Return(records)
    ELSE RaiseExc("KeyError", <<cols[CHOOSE i \in DOMAIN cols :
                                        /\ cols[i] \notin Columns(records)
                                        /\ \A j \in 1..(i - 1) : cols[j] \in Columns(records)]>>)

\* c_scatter_plot / example_c_scatter_plot
PLOT_c_scatter_plot(detections_df, insect_class) ==
    IF NeedsColumns(detections_df, <<"duration", "size">>).kind = "raise"
    THEN NeedsColumns(detections_df, <<"duration", "size">>)
    ELSE IF "label" \notin DOMAIN insect_class THEN RaiseExc("KeyError", <<"label">>)
    ELSE Return("PATS-C " \o insect_class.label \o " detections")

\* c_flight_3d_plot / example_c_flight_3d_plot
PLOT_c_flight_3d_plot(flight_df) ==
    NeedsColumns(flight_df, <<"sposX_insect", "sposY_insect", "sposZ_insect">>)

\* The script ended by an exception nothing catches.
Fail(f, exc) == [f EXCEPT !.pc = "failed", !.error = exc]

\* The exception that ended the plots of the counts.
ErrorOf(shown) ==
    IF shown.c.kind = "raise" THEN shown.c.exc
    ELSE IF shown.avg.kind = "raise" THEN shown.avg.exc ELSE shown.trapeye.exc

\* [insect["id"] for insect in section["detection_classes"]]
InsectIds(section) ==
    [i \in DOMAIN section.detection_classes |-> section.detection_classes[i].id]

\* The arguments of the call the script of main.py is at.
MAIN_args(f) ==
    CASE f.pc \in {"download_detection_classes", "download_sections"} -> NoArgs
      [] f.pc = "download_spots" ->
            [section_id |-> PyInt(f.section.id), snapping_mode |-> PyStr("disabled")]
      [] f.pc = "download_counts" ->
            [start_date |-> f.today, end_date |-> DaysBefore(f.today, 31),
             section_id |-> PyDict(f.section),
             detection_class_ids |-> PyList(InsectIds(f.section)),
             bin_mode |-> PyStr("D"), average_24h_bin |-> PyBool(FALSE)]
      [] f.pc = "download_trapeye_photo_list" ->
            [section_id |-> PyInt(f.section.id), row_id |-> f.ids.row, post_id |-> f.ids.post,
             start_date |-> DaysBefore(f.today, 31), end_date |-> f.today]
      [] f.pc = "download_trapeye_photo" ->
            [section_id |-> PyInt(f.section.id), row_id |-> f.ids.row, post_id |-> f.ids.post,
             photo_id |-> f.photo]
      [] f.pc = "download_c_detection_features" ->
            [section_id |-> PyInt(f.section.id), row_id |-> f.ids.row, post_id |-> f.ids.post,
             system_id |-> f.ids.system, detection_class_id |-> PyInt(f.insect_class.id),
             start_date |-> AtNoon(DaysBefore(f.today, 31)),
             end_date |-> AtNoon(DaysBefore(f.today, 1))]
      [] f.pc = "download_c_flight_track" ->
            [section_id |-> PyInt(f.section.id), detection_uid |-> f.uid]
      [] f.pc = "download_c_video" ->
            [section_id |-> PyInt(f.section.id), detection_uid |-> f.uid,
             raw_stereo |-> PyBool(FALSE)]

\* The arguments of the call the script of example.py is at.
EX_args(f) ==
    CASE f.pc \in {"download_detection_classes", "download_sections"} -> NoArgs
      [] f.pc = "download_spots" -> [section_id |-> PyInt(f.section.id)]
      [] f.pc = "download_counts" ->
            [section_id |-> PyInt(f.section.id),
             detection_class_ids |-> PyList(InsectIds(f.section)),
             start_date |-> DaysBefore(f.today, 100), end_date |-> f.today]
      [] f.pc = "download_trapeye_photo_list" ->
            [section_id |-> PyInt(f.section.id), row_id |-> f.ids.row, post_id |-> f.ids.post,
             start_date |-> DaysBefore(f.today, 100), end_date |-> f.today]
      [] f.pc = "download_trapeye_photo" ->
            [section_id |-> PyInt(f.section.id), row_id |-> f.ids.row, post_id |-> f.ids.post,
             photo_id |-> f.photo]
      [] f.pc = "download_c_detection_features" ->
            [section_id |-> PyInt(f.section.id), row_id |-> f.ids.row, post_id |-> f.ids.post,
             detection_class_id |-> PyInt(f.insect_class.id),
             start_date |-> AtNoon(DaysBefore(f.today, 100)),
             end_date |-> AtNoon(DaysBefore(f.today, 1))]
      [] f.pc \in {"download_c_flight_track", "download_c_video"} ->
            [section_id |-> PyInt(f.section.id), detection_uid |-> f.uid]

\* some_row_id, some_post_id, some_system_id of main.py after the choice of
\* the c spot: a spot without row or post gives its system id and leaves the
\* other two as they are.
MAIN_c_ids(ids, spot) ==
    IF spot.row_id = None \/ spot.post_id = None
    THEN [ids EXCEPT !.system = spot.system_id]
    ELSE [ids EXCEPT !.row = spot.row_id, !.post = spot.post_id]

\* row_id, post_id of example.py after the choice of the c spot
EX_c_ids(ids, spot) == [row |-> spot.row_id, post |-> spot.post_id, system |-> None]

\* next((item for item in classes if item['available_in_c']), {}) and the
\* ['id'] of it in the arguments of the call that follows
WithInsectClass(f, classes) ==
    IF \A i \in DOMAIN classes : classes[i].available_in_c = 0
    THEN [Fail(f, "KeyError") EXCEPT !.insect_class = EmptyDict]
    ELSE [f EXCEPT !.pc = "download_c_detection_features",
                   !.insect_class = classes[CHOOSE i \in DOMAIN classes :
                        /\ classes[i].available_in_c # 0
                        /\ \A j \in 1..(i - 1) : classes[j].available_in_c = 0]]

\* if len(spots['c']): ... up to the call of download_c_detection_features
CPart(v, f) ==
    IF "c" \notin DOMAIN f.spots THEN Fail(f, "KeyError")
    ELSE IF Len(f.spots.c) = 0 THEN [f EXCEPT !.pc = "done"]
    ELSE WithInsectClass([f EXCEPT !.ids = IF v = "pats_service"
                                           THEN MAIN_c_ids(f.ids, f.spots.c[1])
                                           ELSE EX_c_ids(f.ids, f.spots.c[1])],
                         f.section.detection_classes)

\* if len(spots['trapeye']): ... up to the call of download_trapeye_photo_list
TrapeyePart(v, f) ==
    IF "trapeye" \notin DOMAIN f.spots THEN Fail(f, "KeyError")
    ELSE IF Len(f.spots.trapeye) = 0 THEN CPart(v, f)
    ELSE [f EXCEPT !.pc = "download_trapeye_photo_list",
                   !.ids = [row |-> f.spots.trapeye[1].row_id,
                            post |-> f.spots.trapeye[1].post_id, system |-> None]]

\* The plots of the counts, then the part for the Trap-Eye
AfterCounts(v, f, shown) ==
    IF PlotFailed(shown) THEN Fail(f, ErrorOf(shown)) ELSE TrapeyePart(v, f)

\* c_scatter_plot(df_detections, ...); some_insect = df_detections['uid'].iloc[0]
AfterFeatures(f, scatter, uids) ==
    IF scatter.kind = "raise" THEN Fail(f, scatter.exc)
    ELSE IF uids.kind = "raise" THEN Fail(f, uids.exc)
    ELSE [f EXCEPT !.pc = "download_c_flight_track", !.detections = uids.value,
                   !.uid = PyInt(uids.value[1].uid)]

\* The script from the return of the call it is at to the next call.
FlowAfter(v, f, value) ==
    CASE f.pc = "download_detection_classes" ->
            [f EXCEPT !.pc = "download_sections", !.insect_table = value]
      [] f.pc = "download_sections" ->
            IF Len(value) = 0 THEN Fail(f, "IndexError")
            ELSE [f EXCEPT !.pc = "download_spots", !.section = value[1]]
      [] f.pc = "download_spots" -> [f EXCEPT !.pc = "download_counts", !.spots = value]
      [] f.pc = "download_counts" ->
            AfterCounts(v, f, IF v = "pats_service"
                              THEN MAIN_show_counts(value, f.section, f.insect_table)
                              ELSE EX_show_counts(value, f.section, f.insect_table))
      [] f.pc = "download_trapeye_photo_list" ->
            IF Len(value) = 0 THEN Fail(f, "IndexError")
            ELSE [f EXCEPT !.pc = "download_trapeye_photo", !.photo_list = value,
                           !.photo = PyStr(value[1])]
      [] f.pc = "download_trapeye_photo" -> CPart(v, f)
      [] f.pc = "download_c_detection_features" ->
            AfterFeatures(f, PLOT_c_scatter_plot(value.df, f.insect_class),
                          NeedsColumns(value.df, <<"uid">>))
      [] f.pc = "download_c_flight_track" ->
            IF PLOT_c_flight_3d_plot(value.df).kind = "raise" THEN Fail(f, "KeyError")
            ELSE [f EXCEPT !.pc = "download_c_video"]
      [] f.pc = "download_c_video" -> [f EXCEPT !.pc = "done"]

\* The answers the server may give to a call of op with arguments a.
FlowBodies(op, a) ==
    CASE op = "download_detection_classes" -> DetectionClassesBodies
      [] op = "download_sections" -> SectionsBodies
      [] op = "download_spots" -> SpotsBodies
      [] op = "download_counts" -> CountsBodiesFor(a)
      [] op = "download_trapeye_photo_list" -> PhotoListBodies
      [] op = "download_trapeye_photo" -> PhotoBodies
      [] op = "download_c_detection_features" -> DetectionFeaturesBodies
      [] op = "download_c_flight_track" -> FlightTrackBodies
      [] op = "download_c_video" -> VideoBodies

\* The request a call sends: every operation builds and sends it before it
\* looks at any response.
RequestsOf(v, op, self_, a) == ClientCall(v, op, self_, a, NoResponse("Timeout")).sent

Unset == [ty |-> "unset"]
Threads == {"t1", "t2"}
Callers(v) == IF v = "pats_service" THEN {"script", "threads"} ELSE {"script"}

\* The script starts with a client that was constructed or logged in.
FlowStart ==
    /\ flow = NoFlow
    /\ phase = "ready"
    /\ variant \in {"pats_service", "example"}
    /\ \E caller \in Callers(variant), today \in Todays :
        flow' = [caller |-> caller, pc |-> "download_detection_classes", pending |-> <<>>,
                 called |-> {}, error |-> "", today |-> today, insect_table |-> Unset,
                 section |-> Unset, spots |-> Unset,
                 ids |-> [row |-> None, post |-> None, system |-> None],
                 photo_list |-> <<>>, photo |-> Unset, insect_class |-> Unset, detections |-> <<>>, uid |-> Unset]
    /\ UNCHANGED <<variant, phase, self, log, call, sent, resp, outcome, issued, conv, plot>>

\* A call leaves its request: requests.get(...) has been entered.
SendRequest(by, op, a) ==
    /\ call' = [op |-> op, args |-> a]
    /\ sent' = RequestsOf(variant, op, self, a)
    /\ log' = log \o [i \in 1..Len(sent') |-> LogEntry(sent'[i])]
    /\ resp' = [kind |-> "none"]
    /\ outcome' = NoOutcome
    /\ flow' = [flow EXCEPT !.pending = @ \o <<[by |-> by, op |-> op, args |-> a]>>,
                            !.called = @ \cup {by}]
    /\ UNCHANGED <<variant, phase, self, issued, conv, plot>>

\* The script calls the operation it is at.
FlowSend ==
    /\ flow.caller = "script"
    /\ phase = "ready"
    /\ flow.pc \in ReadOps
    /\ flow.pending = <<>>
    /\ SendRequest("main", flow.pc,
                   IF variant = "pats_service" THEN MAIN_args(flow) ELSE EX_args(flow))

\* The call returns or raises; an exception ends the script, SystemExit
\* among them.
Arrive(r, out) ==
    /\ resp' = r
    /\ outcome' = out
    /\ self' = IF variant = "example" THEN SessionSend(self, r) ELSE self
    /\ flow' = IF out.kind = "raise" THEN [Fail(flow, out.exc) EXCEPT !.pending = <<>>]
               ELSE [FlowAfter(variant, flow, out.value) EXCEPT !.pending = <<>>]
    /\ phase' = IF flow'.pc # "failed" THEN "ready"
                ELSE IF out.kind = "raise" /\ out.exc = "SystemExit" THEN "exited"
                ELSE "failed"
    /\ UNCHANGED <<variant, log, call, sent, issued, conv, plot>>

\* The response to the request of the script arrives.
FlowReceive ==
    /\ flow.caller = "script"
    /\ flow.pending # <<>>
    /\ \E r \in Responses(FlowBodies(call.op, call.args)) :
        Arrive(r, ClientCall(variant, call.op, self, call.args, r).outcome)

\* A caller with two threads that share one PatsService: each thread calls
\* download_c_video once.
ThreadVideoArgs ==
    [section_id |-> PyInt(7), detection_uid |-> PyInt(1001), raw_stereo |-> PyBool(FALSE)]

\* Faulty variant: the client holds a lock while a video request is out.
ThreadSend_locked(t) ==
    /\ flow.caller = "threads"
    /\ phase = "ready"
    /\ t \notin flow.called
    /\ \A i \in DOMAIN flow.pending : flow.pending[i].op # "download_c_video"
    /\ SendRequest(t, "download_c_video", ThreadVideoArgs)

ThreadSend(t) ==
    /\ flow.caller = "threads"
    /\ phase = "ready"
    /\ t \notin flow.called
    /\ SendRequest(t, "download_c_video", ThreadVideoArgs)

\* The flow without the request of thread t.
Answered(f, t) ==
    [f EXCEPT !.pending = SelectSeq(f.pending, LAMBDA q : q.by # t)]

ThreadReceive(t) ==
    /\ flow.caller = "threads"
    /\ \E i \in DOMAIN flow.pending : flow.pending[i].by = t
    /\ \E r \in Responses(VideoBodies) :
        /\ resp' = r
        /\ outcome' = ClientCall(variant, "download_c_video", self, ThreadVideoArgs, r).outcome
        /\ flow' = Answered(flow, t)
    /\ UNCHANGED <<variant, phase, self, log, call, sent, issued, conv, plot>>

FlowNext ==
    \/ Construct
    \/ Login
    \/ FlowStart
    \/ FlowSend
    \/ FlowReceive
    \/ \E t \in Threads : ThreadSend(t)
    \/ \E t \in Threads : ThreadReceive(t)

FlowSpec == Init /\ [][FlowNext]_vars

-----------------------------------------------------------------------------
(* Vocabulary of the properties *)

IsConstruction == call.op \in {"__init__", "login"}
IsRead == call.op \notin {"none", "__init__", "login"}
Rejected == resp.kind = "response" /\ resp.status_code # 200
AuthsSent == Cardinality({i \in DOMAIN log : log[i] = "auth"})
ReadsSent == Cardinality({i \in DOMAIN log : log[i] = "read"})
Failed == outcome.kind = "raise"
Returned == outcome.kind = "return"

\* The names of the arguments a request carries, in the query or the JSON body.
ParamKeys(req) ==
    DOMAIN req.query \cup (IF req.body.enc = "json" THEN DOMAIN req.body.obj ELSE {})

-----------------------------------------------------------------------------
(* C1: over the life of one client exactly one authentication exchange is
   sent; it is sent by construction, before any read request, and no read
   operation, rejected or not, sends another one. *)
C1_OneAuthExchange ==
    /\ (phase = "new" => log = <<>>)
    /\ (phase # "new" => AuthsSent = 1 /\ log[1] = "auth")
    /\ (IsRead => \A i \in DOMAIN sent : LogEntry(sent[i]) = "read")

\* A second read has gone out after a read the server rejected with 401.
C1_Witness ==
    /\ IsRead /\ Rejected /\ resp.status_code = 401
    /\ ReadsSent = 2 /\ phase = "ready"

(* C2: when the authentication exchange is answered with a status other than
   200, construction fails with an error the caller can catch: no client
   results, no read request is sent, and the client does not end the process. *)
C2_CatchableAuthFailure ==
    (IsConstruction /\ Rejected) =>
        /\ Failed /\ outcome.exc # "SystemExit"
        /\ phase = "failed"
        /\ ReadsSent = 0 /\ \A op \in ReadOps : ~CanRead(op)

(* C2 as the code has it: construction fails, no client results and no read
   request is sent; example.py raises Exception with the status and the body
   in its message, the two PatsService classes call sys.exit(1), which ends
   the process unless the caller intercepts SystemExit. *)
C2_AuthFailure ==
    (IsConstruction /\ Rejected) =>
        /\ Failed
        /\ phase \in {"failed", "exited"}
        /\ ReadsSent = 0 /\ \A op \in ReadOps : ~CanRead(op)
        /\ (variant \in TokenVariants =>
                /\ outcome.exc = "SystemExit" /\ outcome.code = 1
                /\ self = NoClient)
        /\ (variant = "example" =>
                /\ outcome.exc = "Exception" /\ phase = "failed"
                /\ outcome.args = <<"Login failed: ", IntToStr(resp.status_code),
                                    " msg: ", resp.body.raw>>)

\* The token request of pats_service.py was answered 401 and the process ended.
C2_Witness ==
    /\ variant = "pats_service" /\ call.op = "__init__"
    /\ Rejected /\ phase = "exited"

(* C3: for each of the nine read operations and each status other than 200,
   the call ends in a failure handed to the caller that carries the exact
   status code and the exact response body; it never ends the process and
   never raises a failure without the status. *)
C3_RemoteRejected ==
    (IsRead /\ Rejected) =>
        /\ Failed /\ outcome.exc # "SystemExit"
        /\ "args" \in DOMAIN outcome
        /\ \E i \in DOMAIN outcome.args : outcome.args[i] = IntToStr(resp.status_code)
        /\ \E i \in DOMAIN outcome.args : outcome.args[i] = resp.body.raw

\* How a failure looks to the caller: its type and what is attached to it.
FailureShape(out) ==
    <<out.exc, IF "args" \in DOMAIN out THEN Len(out.args) ELSE 0, "code" \in DOMAIN out>>

(* C4: the classification of a rejected response is uniform: for the same
   response with a status other than 200, all read operations of one client
   end in the same kind of outcome, the same failure type with the same
   attached fields. *)
C4_UniformRejection ==
    (IsRead /\ Rejected) =>
        \A op \in OpsOf(variant) :
            LET other == ClientCall(variant, op, self, CHOOSE a \in ArgsOf(op) : TRUE, resp)
            IN /\ other.outcome.kind = "raise"
               /\ FailureShape(other.outcome) = FailureShape(outcome)

\* What the operation's result is made from, when the body has it.
Decodes(op, body) ==
    CASE op \in {"download_trapeye_photo"} -> "image" \in DOMAIN body
      [] op \in {"download_c_video"} -> TRUE
      [] OTHER -> "json" \in DOMAIN body

(* C5: every call of a read operation ends in exactly one of a returned
   result or a failure; a result is returned only when the status was 200
   and the body decoded; in every other case the caller gets a failure and
   no result. *)
C5_ResultOnlyOn200 ==
    IsRead =>
        /\ (Returned \/ Failed) /\ ~(Returned /\ Failed)
        /\ (Returned => /\ resp.kind = "response" /\ resp.status_code = 200
                        /\ Decodes(call.op, resp.body)
                        /\ "value" \in DOMAIN outcome)
        /\ (~(resp.kind = "response" /\ resp.status_code = 200
                /\ Decodes(call.op, resp.body))
                => Failed /\ "value" \notin DOMAIN outcome)

\* download_spots got status 401 with a JSON body and handed nothing back.
C5_Witness ==
    /\ call.op = "download_spots" /\ variant = "pats_service"
    /\ Rejected /\ "json" \in DOMAIN resp.body /\ Failed

(* C6: no operation retries: one call of the constructor or of a read
   operation sends exactly one HTTP request, whatever the status of the
   response and whether or not a response arrives. *)
C6_OneRequestPerCall ==
    call.op # "none" => Len(sent) = 1

\* download_c_flight_track got no response and sent one request.
C6_Witness ==
    /\ call.op = "download_c_flight_track" /\ variant = "pats_service"
    /\ resp.kind = "noresponse" /\ Len(sent) = 1

(* C7: in the token scheme every request of a read operation carries the
   header Authorization: Bearer <token>, with <token> the access_token the
   token exchange of construction returned. *)
C7_BearerToken ==
    (variant \in TokenVariants /\ IsRead) =>
        \A i \in DOMAIN sent :
            /\ "Authorization" \in DOMAIN sent[i].headers
            /\ sent[i].headers.Authorization = "Bearer " \o issued
            /\ issued \in AccessTokens

\* A read request went out after the server had issued tokB.
C7_Witness ==
    /\ variant = "pats_service" /\ call.op = "download_detection_classes"
    /\ issued = "tokB" /\ Len(sent) = 1

\* The value a request carries for argument k, as it is on the wire: the
\* text in the query string, or the JSON value in the body.
WireValue(req, k) ==
    IF k \in DOMAIN req.query THEN [jt |-> "string", s |-> req.query[k]]
    ELSE req.body.obj[k]

WireString(s) == [jt |-> "string", s |-> s]

SystemIdSupplied ==
    "system_id" \in DOMAIN call.args /\ call.args.system_id # None

(* C8: every request of download_c_detection_features carries either
   system_id or the pair row_id and post_id, never both: with a system id
   supplied it has system_id and neither row_id nor post_id, without one it
   has row_id and post_id and no system_id. *)
C8_LegacyAddressing ==
    call.op = "download_c_detection_features" =>
        \A i \in DOMAIN sent :
            LET K == ParamKeys(sent[i]) IN
            IF SystemIdSupplied
            THEN "system_id" \in K /\ "row_id" \notin K /\ "post_id" \notin K
            ELSE "system_id" \notin K /\ "row_id" \in K /\ "post_id" \in K

\* The caller supplied a system id together with a row id and a post id.
C8_Witness ==
    /\ call.op = "download_c_detection_features" /\ variant = "pats_service"
    /\ SystemIdSupplied /\ call.args.row_id # None /\ call.args.post_id # None
    /\ Len(sent) = 1

\* download_counts sends the id list as the comma-joined text, or leaves
\* the parameter out when the list is empty or absent.
IdsJoinedOrOmitted ==
    \A i \in DOMAIN sent :
        LET K == ParamKeys(sent[i])
            ids == call.args.detection_class_ids
        IN /\ (ids = PyList(<<24, 3, 1>>) =>
                    /\ "detection_class_ids" \in K
                    /\ WireValue(sent[i], "detection_class_ids") = WireString("24,3,1"))
           /\ (ids \in {None, PyList(<<>>)} => "detection_class_ids" \notin K)

(* C9: download_counts transmits the detection-class id list as one
   comma-joined string of the ids in their given order, and with an empty or
   absent list it leaves the detection_class_ids parameter out of the
   request: never an empty string, a null or a native list. *)
C9_IdListJoined ==
    call.op = "download_counts" => IdsJoinedOrOmitted

(* C9 as the code has it: the two PatsService classes send the comma-joined
   string and leave the parameter out for an empty or absent list;
   download_counts of example.py always sends detection_class_ids in its JSON
   body, as a JSON array (also the empty one) or as null. *)
C9_IdListPerScheme ==
    call.op = "download_counts" =>
        /\ (variant \in TokenVariants => IdsJoinedOrOmitted)
        /\ (variant = "example" =>
                \A i \in DOMAIN sent :
                    LET ids == call.args.detection_class_ids
                        v == WireValue(sent[i], "detection_class_ids")
                    IN IF ids = None THEN v = [jt |-> "null"]
                       ELSE v = [jt |-> "array", items |-> ids.l])

\* pats_service.py was given the empty list and sent no detection_class_ids.
C9_Witness ==
    /\ call.op = "download_counts" /\ variant = "pats_service"
    /\ call.args.detection_class_ids = PyList(<<>>)
    /\ Len(sent) = 1 /\ "detection_class_ids" \notin ParamKeys(sent[1])

\* The boolean flags a request carries, with the value the caller gave.
FlagsOf(op, a) ==
    CASE op = "download_counts" /\ "average_24h_bin" \in DOMAIN a ->
            {<<"average_24h_bin", a.average_24h_bin.b>>}
      [] op = "download_c_video" /\ "raw_stereo" \in DOMAIN a ->
            {<<"raw_stereo", a.raw_stereo.b>>}
      [] op = "download_spots" /\ "map_snapping" \in DOMAIN a ->
            {<<"map_snapping", a.map_snapping.b>>}
      [] OTHER -> {}

\* The names of the boolean flags of the API.
FlagNames == {"average_24h_bin", "raw_stereo", "convert_to_mp4", "map_snapping"}

(* C10: every boolean flag of every operation (average_24h_bin of
   download_counts, raw_stereo of download_c_video, map_snapping of
   download_spots) is transmitted as the literal string "0" when false and
   "1" when true, never as a native boolean or another value. *)
C10_FlagsAsDigits ==
    IsRead =>
        \A i \in DOMAIN sent :
            /\ \A k \in FlagNames \cap ParamKeys(sent[i]) :
                    WireValue(sent[i], k) \in {WireString("0"), WireString("1")}
            /\ \A f \in FlagsOf(call.op, call.args) :
                    /\ f[1] \in ParamKeys(sent[i])
                    /\ WireValue(sent[i], f[1]) = WireString(IF f[2] THEN "1" ELSE "0")

(* C10 as the code has it: in the two PatsService classes every flag is in
   the query string as the text 0 when false and 1 when true; example.py
   sends raw_stereo and convert_to_mp4 as the JSON boolean false and
   map_snapping as the JSON number 1. *)
C10_FlagsPerScheme ==
    IsRead =>
        \A i \in DOMAIN sent :
            /\ (variant \in TokenVariants =>
                    /\ \A k \in FlagNames \cap ParamKeys(sent[i]) :
                            WireValue(sent[i], k) \in {WireString("0"), WireString("1")}
                    /\ \A f \in FlagsOf(call.op, call.args) :
                            /\ f[1] \in ParamKeys(sent[i])
                            /\ WireValue(sent[i], f[1])
                                    = WireString(IF f[2] THEN "1" ELSE "0"))
            /\ (variant = "example" =>
                    \A k \in FlagNames \cap ParamKeys(sent[i]) :
                        WireValue(sent[i], k) =
                            IF k = "map_snapping" THEN [jt |-> "number", n |-> 1]
                            ELSE [jt |-> "boolean", b |-> FALSE])

\* pats_service.py was asked for the raw stereo video and sent raw_stereo=1.
C10_Witness ==
    /\ call.op = "download_c_video" /\ variant = "pats_service"
    /\ call.args.raw_stereo = PyBool(TRUE)
    /\ Len(sent) = 1 /\ sent[1].query["raw_stereo"] = "1"

-----------------------------------------------------------------------------
\* Zeroing what a format does not write: the time of day for "%Y%m%d", the
\* microsecond for "%Y%m%d_%H%M%S".
Truncated(d, fields) ==
    IF fields = DateFormat THEN PyDateTime(d.year, d.month, d.day, 0, 0, 0, 0)
    ELSE PyDateTime(d.year, d.month, d.day, d.hour, d.minute, d.second, 0)

(* C11: download_counts and download_trapeye_photo_list put their dates on
   the wire as the text YYYYMMDD, download_c_detection_features as
   YYYYMMDD_HHMMSS, never as a native value; 2024-07-08 22:25:45 is written
   "20240708" and "20240708_222545"; and parsing the text with the format it
   was written with gives back the caller's value, without the time of day
   for a date and without the microsecond for a datetime. *)
C11_DateRoundTrip ==
    /\ conv.stage \in {"sent", "parsed"} =>
        \A i \in 1..2 :
            /\ conv.wire[i].jt = "string"
            /\ Len(conv.wire[i].s) = (IF FormatOf(conv.op) = DateFormat THEN 8 ELSE 15)
            /\ (conv.value[i].year = 2024 /\ conv.value[i].month = 7 /\ conv.value[i].day = 8
                    /\ conv.value[i].hour = 22 /\ conv.value[i].minute = 25
                    /\ conv.value[i].second = 45)
                => conv.wire[i].s = (IF FormatOf(conv.op) = DateFormat THEN "20240708"
                                     ELSE "20240708_222545")
    /\ conv.stage = "parsed" =>
        \A i \in 1..2 :
            conv.parsed[i] = Return(Truncated(conv.value[i], FormatOf(conv.op)))

C11_Witness ==
    /\ conv.stage = "parsed"
    /\ conv.op = "download_c_detection_features"
    /\ conv.value[1] = PyDateTime(2024, 7, 8, 22, 25, 45, 123456)
    /\ conv.wire[1].s = "20240708_222545"
    /\ conv.parsed[1] = Return(PyDateTime(2024, 7, 8, 22, 25, 45, 0))

-----------------------------------------------------------------------------
\* The endpoint of each read operation, as the last part of its path.
EndpointOf(op) ==
    CASE op = "download_detection_classes" -> "detection_classes"
      [] op = "download_sections" -> "sections"
      [] op = "download_spots" -> "spots"
      [] op = "download_counts" -> "counts"
      [] op = "download_trapeye_photo_list" -> "trapeye_photo_list"
      [] op = "download_trapeye_photo" -> "download_trapeye_photo"
      [] op = "download_c_detection_features" -> "download_detection_features"
      [] op = "download_c_flight_track" -> "download_c_flight_track"
      [] op = "download_c_video" -> "download_c_video"

(* C12: every read operation, in every client file, sends its request to its
   own endpoint: download_sections to /api/sections, download_detection_classes
   to /api/detection_classes, and so on for all nine. *)
C12_OwnEndpoint ==
    IsRead =>
        \A i \in DOMAIN sent :
            sent[i].url = (IF variant = "example" THEN EX_server \o "api/"
                           ELSE self.server \o "/api/") \o EndpointOf(call.op)

-----------------------------------------------------------------------------
(* C13: in example.py login succeeds exactly when the response has status 200
   and the body is the text OK; after any other answer, a 200 with another
   body included, the login has failed and no request is sent any more. *)
C13_LoginOnlyOK ==
    [][variant = "example" =>
        /\ call'.op = "login" /\ call.op = "none" =>
              /\ outcome'.kind = "return"
                    <=> (resp'.kind = "response" /\ resp'.status_code = 200
                            /\ resp'.body.raw = "OK")
              /\ phase' = (IF outcome'.kind = "return" THEN "ready" ELSE "failed")
        /\ phase = "failed" => log' = log /\ phase' = "failed"]_vars

C13_Witness ==
    /\ variant = "example"
    /\ call.op = "login"
    /\ resp.kind = "response" /\ resp.status_code = 200 /\ resp.body.raw = "NOK"
    /\ Failed
    /\ phase = "failed"
    /\ ReadsSent = 0

-----------------------------------------------------------------------------
(* C14: in example.py every read operation is a GET request on the session
   that logged in, and its arguments travel as a JSON body, not in the query;
   no read operation uses another HTTP method. *)
C14_CookieReadsAreGet ==
    (variant = "example" /\ IsRead) =>
        \A i \in DOMAIN sent :
            /\ sent[i].method = "GET"
            /\ sent[i].query = EmptyDict
            /\ sent[i].body.enc \in {"json", "none"}
            /\ call.args # NoArgs => sent[i].body.enc = "json"

-----------------------------------------------------------------------------
(* C15: every request a client sends, the authentication request and every
   read request, in both schemes, carries a timeout, and it is the timeout
   given at construction. *)
C15_TimeoutOnEveryRequest ==
    \A i \in DOMAIN sent :
        /\ sent[i].timeout # None
        /\ "timeout" \in DOMAIN self => sent[i].timeout = PyInt(self.timeout)
        /\ call.op = "__init__" => sent[i].timeout = PyInt(call.args.timeout)

-----------------------------------------------------------------------------
\* The top-level keys of the JSON answer of each operation; the photo and the
\* video are not JSON.
ExpectedKeys(op) ==
    CASE op = "download_detection_classes" -> {"detection_classes"}
      [] op = "download_sections" -> {"sections"}
      [] op \in {"download_spots", "download_counts"} -> {"c", "trapeye"}
      [] op = "download_trapeye_photo_list" -> {"photos"}
      [] op \in {"download_c_detection_features", "download_c_flight_track"} -> {"data"}
      [] OTHER -> {}

LacksExpectedKey ==
    /\ IsRead
    /\ resp.kind = "response" /\ resp.status_code = 200
    /\ "json" \in DOMAIN resp.body
    /\ ~(ExpectedKeys(call.op) \subseteq DOMAIN resp.body.json)

(* C16: a read operation answered with status 200 and a JSON body that lacks
   a top-level key the operation expects ends in a failure; it never returns
   a value, download_spots and download_counts (keys c and trapeye) included. *)
C16_MissingKeyFails == LacksExpectedKey => Failed

-----------------------------------------------------------------------------
\* The rows of the c sensors in the counts the most recent call returned.
CRows ==
    IF call.op = "download_counts" /\ Returned /\ "c" \in DOMAIN outcome.value
    THEN UNION {{outcome.value.c[i].counts[j] : j \in DOMAIN outcome.value.c[i].counts} :
                    i \in DOMAIN outcome.value.c}
    ELSE {}

\* The fields of a set of rows that hold a timestamp text.
TimestampFields(rows) ==
    {k \in UNION {DOMAIN r : r \in rows} : \E r \in rows : k \in DOMAIN r /\ r[k].jt = "string"}

(* C17 as stated: the counts download_counts returns are normalised by the
   client, so the rows of any two answers carry the timestamp in one and the
   same field, whatever the bin mode of the answer. *)
C17_NormalizedByClient ==
    [][(CRows # {} /\ CRows' # {}) =>
            /\ Cardinality(TimestampFields(CRows')) = 1
            /\ TimestampFields(CRows') = TimestampFields(CRows)]_vars

(* C17 as amended: download_counts returns the rows as the server sent them,
   with the timestamp under date for daily and datetime for hourly bins.
   ExamplePlots.c_binned_per_day_plot normalises both: its figure is indexed
   by the timestamps parsed from whichever field is there and neither field
   remains a column. *)
C17_NormalizedByConsumer ==
    CRows # {} =>
        /\ outcome.value = resp.body.json
        /\ plot.by = "main" =>
            /\ plot.c.kind = "return"
            /\ \A i \in DOMAIN plot.c.value :
                LET fig == plot.c.value[i]
                    src == outcome.value.c[i].counts
                IN /\ DOMAIN fig.index = DOMAIN src
                   /\ \A j \in DOMAIN src :
                        /\ DOMAIN fig.rows[j] \cap {"date", "datetime"} = {}
                        /\ "date" \in DOMAIN src[j] =>
                                StrftimeDate(fig.index[j]) = src[j].date.s
                        /\ "date" \notin DOMAIN src[j] =>
                                StrftimeDateTime(fig.index[j]) = src[j].datetime.s

C17_Witness ==
    /\ plot.by = "main"
    /\ TimestampFields(CRows) = {"datetime"}
    /\ plot.c.kind = "return"
    /\ plot.c.value[1].index[1] = PyDateTime(2024, 7, 8, 12, 0, 0, 0)

-----------------------------------------------------------------------------
\* The trapeye series in the counts the most recent call returned.
TrapeyeReturned ==
    IF call.op = "download_counts" /\ Returned /\ "trapeye" \in DOMAIN outcome.value
    THEN outcome.value.trapeye ELSE <<>>

\* The columns of a row that hold numbers.
NumberColumns(row) == {c \in DOMAIN row : row[c].jt = "number"}
HoldsNaN(row) == \E c \in DOMAIN row : row[c] = JNaN

(* C18 as stated: in every trapeye series handed to the caller the first
   bucket's new counts and diffs are marked unknown, never zero, and every
   later bucket's new count is its absolute count minus that of the bucket
   before. *)
C18_FirstBucketUnknown ==
    \A i \in DOMAIN TrapeyeReturned :
        LET t == TrapeyeReturned[i] IN
        /\ \A c \in NumberColumns(t.new_counts[1]) : t.new_counts[1][c] = JNaN
        /\ t.absolute_count[1].ta_diff = JNaN
        /\ \A j \in 2..Len(t.new_counts) :
            \A c \in NumberColumns(t.new_counts[j]) :
                t.new_counts[j][c].n = t.absolute_count[j][c].n - t.absolute_count[j - 1][c].n

(* C18 as amended: the client neither computes nor checks new counts and
   diffs; it hands every trapeye series to the caller as the server sent it,
   an unknown (NaN) value still unknown and never zero.  trapeye_plot of
   plot_examples.py plots only the buckets without an unknown value and
   plots their numbers unchanged; example_trapeye_plot of example.py keeps
   every bucket and keeps an unknown value unknown. *)
C18_UnknownStaysUnknown ==
    Len(TrapeyeReturned) > 0 =>
        /\ TrapeyeReturned = resp.body.json.trapeye
        /\ (plot.by \in {"main", "example"} /\ plot.trapeye.kind = "return") =>
            LET fig == plot.trapeye.value
                src == resp.body.json.trapeye[1].new_counts
            IN /\ plot.by = "example" => DOMAIN fig.rows = DOMAIN src
               /\ \A j \in DOMAIN fig.rows :
                    \E k \in DOMAIN src :
                        /\ StrftimeDate(fig.index[j]) = src[k].date.s
                        /\ \A c \in DOMAIN fig.rows[j] : fig.rows[j][c] = src[k][c]
                        /\ plot.by = "main" => ~HoldsNaN(src[k])
               /\ plot.by = "main" =>
                    Len(fig.rows) = Cardinality({k \in DOMAIN src : ~HoldsNaN(src[k])})

C18_Witness ==
    /\ Len(TrapeyeReturned) > 0
    /\ HoldsNaN(TrapeyeReturned[1].new_counts[1])
    /\ plot.by = "main"
    /\ plot.trapeye.kind = "return"
    /\ Len(plot.trapeye.value.rows) = 1
    /\ plot.trapeye.value.rows[1]["3"] = JNum(2)

-----------------------------------------------------------------------------
(* C19: download_c_detection_features decodes its answer the same way on
   both addressing paths: whatever the call that was made, the same answer
   given to a call addressed the other way (by system_id, or by row_id and
   post_id) ends in the identical outcome, although the two requests differ. *)
C19_SameDecodingBothPaths ==
    (variant = "pats_service" /\ call.op = "download_c_detection_features") =>
        \A other \in DetectionFeaturesArgs :
            LET res == ClientCall(variant, call.op, self, other, resp)
            IN /\ res.outcome = outcome
               /\ (other.system_id = None) # (call.args.system_id = None)
                    => ParamKeys(res.sent[1]) # ParamKeys(sent[1])

C19_Witness ==
    /\ variant = "pats_service"
    /\ call.op = "download_c_detection_features"
    /\ call.args.system_id # None
    /\ "system_id" \in ParamKeys(sent[1])
    /\ Returned
    /\ Len(outcome.value.df) = 2

-----------------------------------------------------------------------------
(* C20: download_spots returns the c spots of the answer under c and its
   trapeye spots under trapeye, each list as the server sent it: for an
   answer with one c spot and one trapeye spot the result has exactly one
   spot in each list, the c spot without unit_id and the trapeye spot
   without system_id. *)
C20_SpotsKeptApart ==
    (call.op = "download_spots" /\ Returned /\ {"c", "trapeye"} \subseteq DOMAIN resp.body.json)
        => /\ DOMAIN outcome.value = DOMAIN resp.body.json
           /\ outcome.value.c = resp.body.json.c
           /\ outcome.value.trapeye = resp.body.json.trapeye
           /\ (Len(resp.body.json.c) = 1 /\ Len(resp.body.json.trapeye) = 1) =>
                /\ Len(outcome.value.c) = 1
                /\ Len(outcome.value.trapeye) = 1
                /\ "unit_id" \notin DOMAIN outcome.value.c[1]
                /\ "system_id" \notin DOMAIN outcome.value.trapeye[1]

C20_Witness ==
    /\ call.op = "download_spots"
    /\ Returned
    /\ {"c", "trapeye"} \subseteq DOMAIN outcome.value
    /\ Len(outcome.value.c) = 1
    /\ Len(outcome.value.trapeye) = 1
    /\ outcome.value.c[1].system_id = PyInt(123)
    /\ outcome.value.trapeye[1].unit_id = PyInt(9876)

-----------------------------------------------------------------------------
(* C21: every request of download_spots, in every client file, carries the
   snapping mode under snapping_mode with one of the values disabled, auto,
   row, post, and carries no map_snapping argument. *)
C21_SnappingModeOnly ==
    call.op = "download_spots" =>
        \A i \in DOMAIN sent :
            /\ "map_snapping" \notin ParamKeys(sent[i])
            /\ "snapping_mode" \in ParamKeys(sent[i])
            /\ WireValue(sent[i], "snapping_mode") \in {WireString(m.s) : m \in SnappingModes}

-----------------------------------------------------------------------------
\* The ways a rejected request ends: sys.exit(1), or the Exception of example.py.
RejectionExceptions == {"SystemExit", "Exception"}

(* C22: a read operation that gets no response ends by raising the transport
   exception of the requests library to the caller: it is none of the
   exceptions a rejected request ends in, the call returns nothing, it sent
   its request once, and the process goes on under the caller's control. *)
C22_TransportFailure ==
    (IsRead /\ resp.kind = "noresponse") =>
        /\ outcome = RaiseExc(resp.exc, <<>>)
        /\ outcome.exc \in TransportErrors \ RejectionExceptions
        /\ Len(sent) = 1
        /\ phase = "ready"

\* download_counts of pats_service.py ran into the timeout.
C22_Witness ==
    /\ variant = "pats_service" /\ call.op = "download_counts"
    /\ resp = NoResponse("Timeout")
    /\ outcome.kind = "raise"

-----------------------------------------------------------------------------
(* C23: once the constructor of PatsService has returned, no step changes
   the token, the server or the timeout of the client: after any sequence of
   read operations, failed ones included, the three hold what the
   constructor stored, the token being the one the server issued. *)
C23_SessionImmutable ==
    [][(variant \in TokenVariants /\ self # NoClient) =>
            /\ self' = self
            /\ self'.token = issued'
            /\ self'.server \in Servers /\ self'.timeout \in Timeouts]_vars

\* Two reads after construction, the second one failed, the client still
\* holding the constructor's values.
C23_Witness ==
    /\ variant = "pats_service" /\ ReadsSent = 2 /\ Failed
    /\ call.op = "download_c_flight_track"
    /\ self = [server |-> "https://pats-c.com", timeout |-> 10, token |-> "tokB"]

-----------------------------------------------------------------------------
\* Neither way of naming the spot is complete in the arguments of the call.
IdentifiersMissing ==
    /\ call.args.system_id = None
    /\ (call.args.row_id = None \/ call.args.post_id = None)

(* C27: every request of download_c_detection_features of pats_service.py
   names the spot by numbers: the row_id, post_id and system_id it carries
   are decimal integers, and a call that has no system id and lacks the row
   id or the post id sends no request. *)
C27_RealIdentifiers ==
    (variant = "pats_service" /\ call.op = "download_c_detection_features") =>
        /\ \A i \in DOMAIN sent :
            \A k \in {"row_id", "post_id", "system_id"} \cap ParamKeys(sent[i]) :
                LET v == WireValue(sent[i], k)
                IN v.jt = "string" /\ Len(v.s) > 0 /\ IsDigits(v.s)
        /\ IdentifiersMissing => sent = <<>>

-----------------------------------------------------------------------------
\* The requests of download_c_video that are waiting for their response.
VideosInFlight ==
    IF flow = NoFlow THEN {}
    ELSE {i \in DOMAIN flow.pending : flow.pending[i].op = "download_c_video"}

(* C24: the scripts of main.py and example.py have at most one request in
   flight at any time, so never two requests of download_c_video; and the
   client holds nothing back: a thread of a caller that shares one
   PatsService can enter download_c_video whatever other requests are in
   flight. *)
C24_SequentialScriptOpenClient ==
    /\ (flow # NoFlow /\ flow.caller = "script") => Len(flow.pending) <= 1
    /\ (flow # NoFlow /\ flow.caller = "threads" /\ phase = "ready") =>
            \A t \in Threads \ flow.called : ENABLED ThreadSend(t)

\* Two threads are both inside download_c_video of the same client.
C24_Witness ==
    /\ flow # NoFlow /\ flow.caller = "threads"
    /\ Cardinality(VideosInFlight) = 2
    /\ Len(sent) = 1 /\ call.op = "download_c_video"

-----------------------------------------------------------------------------
\* The integer a value on the wire denotes: a JSON number, or a text of
\* decimal digits; -1 for anything else.
WireInt(v) ==
    IF v.jt = "number" THEN v.n
    ELSE IF v.jt = "string" /\ Len(v.s) > 0 /\ IsDigits(v.s) THEN Num(v.s)
    ELSE -1

\* The script is at, or has just returned from, a call of op.
ScriptCalled(op) == flow # NoFlow /\ flow.caller = "script" /\ call.op = op

(* C25: in the scripts the request of download_counts carries as section_id
   the integer id of the section chosen from the answer of download_sections,
   the value the request of download_spots carried. *)
C25_CountsForChosenSection ==
    ScriptCalled("download_counts") =>
        \A i \in DOMAIN sent :
            WireInt(WireValue(sent[i], "section_id")) = flow.section.id

-----------------------------------------------------------------------------
(* C26: in every request of download_counts the scripts send, the start_date
   on the wire is not later than the end_date on the wire. *)
C26_WindowRunsForward ==
    ScriptCalled("download_counts") =>
        \A i \in DOMAIN sent :
            WireInt(WireValue(sent[i], "start_date")) <= WireInt(WireValue(sent[i], "end_date"))

-----------------------------------------------------------------------------
\* The spot identifiers a request carries, each with the integer it denotes.
SpotIdsOnWire(req) ==
    [k \in {"row_id", "post_id", "system_id"} \cap ParamKeys(req) |->
        WireInt(WireValue(req, k))]

\* The identifiers of a c spot: row and post, or the system id when the
\* spot has no row or no post.
IdsOfCSpot(spot) ==
    IF spot.row_id = None \/ spot.post_id = None
    THEN [system_id |-> spot.system_id.i]
    ELSE [row_id |-> spot.row_id.i, post_id |-> spot.post_id.i]

(* C28: in the script of main.py the request of download_c_detection_features
   carries the identifiers of the first c spot of the section and no others:
   its row and post id, or only its system id when it has no row or post,
   whatever Trap-Eye spot the script used before. *)
C28_IdsOfFirstCSpot ==
    (variant = "pats_service" /\ ScriptCalled("download_c_detection_features")) =>
        \A i \in DOMAIN sent : SpotIdsOnWire(sent[i]) = IdsOfCSpot(flow.spots.c[1])

\* The script took row 5 and post 6 from a Trap-Eye spot and then chose a c
\* spot that has only a system id.
C28_Witness ==
    /\ variant = "pats_service" /\ ScriptCalled("download_c_detection_features")
    /\ flow.ids = [row |-> PyInt(5), post |-> PyInt(6), system |-> PyInt(123)]
    /\ flow.spots.c[1].row_id = None
    /\ Len(sent) = 1 /\ sent[1].query.system_id = "123"

-----------------------------------------------------------------------------
(* C29: in the scripts a request of download_trapeye_photo names a photo of
   the list download_trapeye_photo_list has just returned, and after an
   empty list no photo is requested and the script goes on without an
   exception. *)
C29_PhotoFromList ==
    /\ ScriptCalled("download_trapeye_photo") =>
            \A i \in DOMAIN sent :
                \E j \in DOMAIN flow.photo_list :
                    WireValue(sent[i], "datetime") = WireString(flow.photo_list[j])
    /\ (ScriptCalled("download_trapeye_photo_list") /\ outcome = Return(<<>>)) =>
            flow.pc \notin {"failed", "download_trapeye_photo"}

-----------------------------------------------------------------------------
\* The classes of the chosen section that are available for c sensors.
ClassesInC ==
    {flow.section.detection_classes[i].id :
        i \in {j \in DOMAIN flow.section.detection_classes :
                flow.section.detection_classes[j].available_in_c # 0}}

(* C30: in the scripts the request of download_c_detection_features names a
   detection class that the section has available for c sensors, and the
   requests of download_c_flight_track and download_c_video name a uid of the
   batch just returned; when the section has no such class, or the batch is
   empty, none of these requests is sent and the script ends without an
   exception. *)
C30_RequestsFollowData ==
    /\ ScriptCalled("download_c_detection_features") =>
            \A i \in DOMAIN sent :
                WireInt(WireValue(sent[i], "detection_class_id")) \in ClassesInC
    /\ (ScriptCalled("download_c_flight_track") \/ ScriptCalled("download_c_video")) =>
            \A i \in DOMAIN sent :
                \E j \in DOMAIN flow.detections :
                    WireInt(WireValue(sent[i], "detection_uid")) = flow.detections[j].uid
    /\ (flow # NoFlow /\ flow.caller = "script" /\ DOMAIN flow.insect_class = {}) =>
            flow.pc # "failed"
    /\ (ScriptCalled("download_c_detection_features") /\ outcome = Return([df |-> <<>>])) =>
            flow.pc # "failed"

====
